---- MODULE Spec2Model ----
(***************************************************************************)
(* Model of the form-validation utilities (FormValidation) and the test    *)
(* fixtures they are used with.                                            *)
(*                                                                         *)
(* A JavaScript string is a sequence of one-character strings; a           *)
(* JavaScript value is a record [t, s, n] (type tag, string payload,       *)
(* number payload).  Regular expressions are data interpreted by a small   *)
(* backtracking matcher, so a validator accepts a string exactly when the  *)
(* source's regular expression does.                                       *)
(***************************************************************************)
EXTENDS Integers, Sequences, FiniteSets, TLC

(***************************************************************************)
(* Characters and strings                                                  *)
(***************************************************************************)

\* The printable ASCII characters in code order; AsciiChars[i] has code i + 31
\* (the grave accent, code 96, is written "GRAVE").
AsciiChars ==
  << " ", "!", "\"", "#", "$", "%", "&", "'", "(", ")", "*", "+", ",", "-", ".", "/",
     "0", "1", "2", "3", "4", "5", "6", "7", "8", "9", ":", ";", "<", "=", ">", "?",
     "@", "A", "B", "C", "D", "E", "F", "G", "H", "I", "J", "K", "L", "M", "N", "O",
     "P", "Q", "R", "S", "T", "U", "V", "W", "X", "Y", "Z", "[", "\\", "]", "^", "_",
     "GRAVE", "a", "b", "c", "d", "e", "f", "g", "h", "i", "j", "k", "l", "m", "n", "o",
     "p", "q", "r", "s", "t", "u", "v", "w", "x", "y", "z", "{", "|", "}", "~" >>

\* The code unit of each character (tab and line feed are the two control
\* characters the model uses).
CodeTable ==
  [c \in {AsciiChars[i] : i \in DOMAIN AsciiChars} \cup {"\t", "\n"} |->
     IF c = "\t" THEN 9
     ELSE IF c = "\n" THEN 10
     ELSE 31 + (CHOOSE i \in DOMAIN AsciiChars : AsciiChars[i] = c)]

Code(c) == CodeTable[c]

\* The characters String.prototype.trim strips and the regex class \s matches.
WhiteSpace == {" ", "\t", "\n"}

RECURSIVE Concat(_)
\* The concatenation of a sequence of strings.
Concat(parts) ==
  IF parts = <<>> THEN <<>> ELSE Head(parts) \o Concat(Tail(parts))

RECURSIVE Join(_, _)
\* Array.prototype.join: the elements separated by sep.
Join(arr, sep) ==
  IF arr = <<>> THEN <<>>
  ELSE IF Len(arr) = 1 THEN arr[1]
  ELSE arr[1] \o sep \o Join(Tail(arr), sep)

RECURSIVE Repeat(_, _)
\* The string made of n copies of the character c.
Repeat(c, n) == IF n <= 0 THEN <<>> ELSE <<c>> \o Repeat(c, n - 1)

\* String.prototype.padStart(width, c) for a one-character filler.
PadStart(s, width, c) == Repeat(c, width - Len(s)) \o s

\* String.prototype.trim.
Trim(s) ==
  LET keep == {i \in DOMAIN s : s[i] \notin WhiteSpace}
  IN IF keep = {} THEN <<>>
     ELSE LET lo == CHOOSE i \in keep : \A j \in keep : i <= j
              hi == CHOOSE i \in keep : \A j \in keep : j <= i
          IN SubSeq(s, lo, hi)

RECURSIVE Digits(_)
\* The decimal digits of a natural number, most significant first.
Digits(n) ==
  IF n < 10 THEN <<AsciiChars[17 + n]>>
  ELSE Digits(n \div 10) \o <<AsciiChars[17 + (n % 10)]>>

\* Number.prototype.toString for the integers the model uses.
NumberToString(n) == IF n < 0 THEN <<"-">> \o Digits(0 - n) ELSE Digits(n)

(***************************************************************************)
(* JavaScript values                                                       *)
(***************************************************************************)

Undefined == [t |-> "undefined", s |-> <<>>, n |-> 0]
Null == [t |-> "null", s |-> <<>>, n |-> 0]
Str(s) == [t |-> "string", s |-> s, n |-> 0]
Num(n) == [t |-> "number", s |-> <<>>, n |-> n]

\* The abstract operation ToString, as RegExp.prototype.test applies it to its argument.
JsToString(v) ==
  CASE v.t = "string" -> v.s
    [] v.t = "number" -> NumberToString(v.n)
    [] v.t = "null" -> <<"n", "u", "l", "l">>
    [] OTHER -> <<"u", "n", "d", "e", "f", "i", "n", "e", "d">>

\* ToBoolean(v) is false.
Falsy(v) ==
  \/ v.t \in {"undefined", "null"}
  \/ v.t = "string" /\ v.s = <<>>
  \/ v.t = "number" /\ v.n = 0

(***************************************************************************)
(* Regular expressions                                                     *)
(*                                                                         *)
(* A character class is [neg, ws, ranges]: negated or not, whether it      *)
(* holds \s, and its code ranges.  A pattern is [anchorStart, anchorEnd,   *)
(* atoms], each atom a class with a quantifier {min, max}; max = -1 is no  *)
(* upper limit.                                                            *)
(***************************************************************************)

RECURSIVE ClassAtoms(_, _)
\* The atoms of a class body from position i on: a backslash escapes the next
\* character (\s is the white-space class, any other escaped character stands
\* for itself), every other character stands for itself.
ClassAtoms(body, i) ==
  IF i > Len(body) THEN <<>>
  ELSE IF body[i] = "\\" /\ i < Len(body)
       THEN <<[ws |-> body[i + 1] = "s", ch |-> body[i + 1], esc |-> TRUE]>>
            \o ClassAtoms(body, i + 2)
       ELSE <<[ws |-> FALSE, ch |-> body[i], esc |-> FALSE]>>
            \o ClassAtoms(body, i + 1)

RECURSIVE ClassRanges(_, _)
\* The code ranges of a list of class atoms: a-b between two characters is a
\* range, an escaped or a dangling "-" is a character.
ClassRanges(atoms, i) ==
  IF i > Len(atoms) THEN {}
  ELSE IF /\ i + 2 <= Len(atoms)
          /\ atoms[i + 1].ch = "-" /\ ~atoms[i + 1].esc
          /\ ~atoms[i].ws /\ ~atoms[i + 2].ws
       THEN {<<Code(atoms[i].ch), Code(atoms[i + 2].ch)>>}
            \cup ClassRanges(atoms, i + 3)
       ELSE (IF atoms[i].ws THEN {}
             ELSE {<<Code(atoms[i].ch), Code(atoms[i].ch)>>})
            \cup ClassRanges(atoms, i + 1)

\* The class a bracket expression "[...]" denotes.
ParseClass(src) ==
  LET inner == SubSeq(src, 2, Len(src) - 1)
      neg == inner # <<>> /\ inner[1] = "^"
      body == IF neg THEN Tail(inner) ELSE inner
      atoms == ClassAtoms(body, 1)
  IN [neg |-> neg,
      ws |-> \E k \in DOMAIN atoms : atoms[k].ws,
      ranges |-> ClassRanges(atoms, 1)]

\* The class of the single character c (a literal such as "@" or "\.").
Literal(c) == [neg |-> FALSE, ws |-> FALSE, ranges |-> {<<Code(c), Code(c)>>}]

\* Whether the class cls matches the character c.
ClassHas(cls, c) ==
  LET in == \/ cls.ws /\ c \in WhiteSpace
            \/ \E r \in cls.ranges : r[1] <= Code(c) /\ Code(c) <= r[2]
  IN in # cls.neg

RECURSIVE RunLength(_, _, _, _)
\* How many characters of s from position i on the class matches, at most max.
RunLength(cls, s, i, max) ==
  IF max = 0 \/ i > Len(s) \/ ~ClassHas(cls, s[i]) THEN 0
  ELSE 1 + RunLength(cls, s, i + 1, max - 1)

RECURSIVE MatchEnds(_, _, _, _)
\* The positions at which a match of atoms k.. that starts at position i of s
\* can end (one past its last character), over every way of backtracking.
MatchEnds(atoms, k, s, i) ==
  IF k > Len(atoms) THEN {i}
  ELSE LET a == atoms[k]
           run == RunLength(a.cls, s, i, a.max)
       IN UNION {MatchEnds(atoms, k + 1, s, i + n) : n \in a.min .. run}

\* RegExp.prototype.test on the string s.
RegExpTest(re, s) ==
  \E start \in (IF re.anchorStart THEN {1} ELSE 1 .. Len(s) + 1) :
    \E e \in MatchEnds(re.atoms, 1, s, start) :
      re.anchorEnd => e = Len(s) + 1

\* An atom matched exactly once, one or more times, exactly n times.
Once(cls) == [cls |-> cls, min |-> 1, max |-> 1]
Plus(cls) == [cls |-> cls, min |-> 1, max |-> -1]
Times(cls, n) == [cls |-> cls, min |-> n, max |-> n]

\* A pattern that tests for one character of a class anywhere in the string.
Anywhere(cls) == [anchorStart |-> FALSE, anchorEnd |-> FALSE, atoms |-> <<Once(cls)>>]

(***************************************************************************)
(* testData: the password requirements and the fixtures                    *)
(***************************************************************************)

VARIABLES
  passwordRequirements,  \* testData.passwordRequirements, the shared table
  email,                 \* the running test's generated email, or Undefined
  phone,                 \* the running test's generated phone, or Undefined
  password,              \* the running test's generated password, or Undefined
  entropy,               \* the clock and random values the generators drew
  pc,                    \* "test": inside a test body; "returned": a call returned
  fn,                    \* the FormValidation method called last
  formData,              \* its formData argument (form validators)
  isEmailMode,           \* its isEmailSignup / isEmailSignin argument
  arg,                   \* its argument (isValidEmail, isValidPhone, validatePassword)
  result,                \* its ValidationResult, or the record of a throw
  ok,                    \* its boolean return (isValidEmail, isValidPhone)
  again,                 \* what the same call returned when the test repeated it
  flow,                  \* the flow the test has submitted: "signup", "signin", "logout"
  inflight,              \* the URLs requested whose response has not arrived
  waiter,                \* the URL page.waitForResponse is registered for, or "none"
  resolved,              \* what the test's awaits have resolved with, in order
  expecting,             \* the expectSuccess argument of a response validator
  contexts,              \* the open browser contexts that carry the blocking route
  request,               \* the request the test's page issued last, and what became of it
  session,               \* the page's session: "signedOut", "signedIn", "loggingOut"
  clicks,                \* the clickLogout calls the test has made
  emails,                \* two generateRandomEmail calls of one test: what each drew and returned
  subscribed,            \* whether the subscribe checkbox of the sign-up form is checked
  setCall,               \* the last setSubscribeCheckbox call of the test
  authPage,              \* the page validateSuccessfulAuth looked at, and the email it was given
  tokenRoute             \* the last request of a page with the captcha route, and what was sent on

vars ==
  << passwordRequirements, email, phone, password, entropy, pc, fn, formData,
     isEmailMode, arg, result, ok, again, flow, inflight, waiter, resolved,
     expecting, contexts, request, session, clicks, emails, subscribed, setCall,
     authPage, tokenRoute >>

\* The browser contexts and the requests routed in them.
routeVars == << contexts, request >>

\* The profile page.
profileVars == << session, clicks >>

\* The sign-up form.
signupVars == << subscribed, setCall >>

\* The state of the browser a test's page lives in, and of the helpers a
\* test calls besides the validators.
pageVars == << routeVars, profileVars, emails, signupVars, authPage, tokenRoute >>

\* The state of the flow a test drives through the page.
flowVars == << flow, inflight, waiter, resolved, expecting >>

\* The state the FormValidation calls of a test work on.
formVars ==
  << passwordRequirements, email, phone, password, entropy, formData, isEmailMode,
     arg, ok, again >>

\* All but the route state, the profile page, the generated pair of emails,
\* the sign-up form, the page validateSuccessfulAuth looked at, the captcha
\* route.
besidesRoute ==
  << formVars, flowVars, profileVars, emails, signupVars, authPage, tokenRoute >>
besidesProfile ==
  << formVars, flowVars, routeVars, emails, signupVars, authPage, tokenRoute >>
besidesEmails ==
  << formVars, flowVars, routeVars, profileVars, signupVars, authPage, tokenRoute >>
besidesSignup ==
  << formVars, flowVars, routeVars, profileVars, emails, authPage, tokenRoute >>
besidesAuth ==
  << formVars, flowVars, routeVars, profileVars, emails, signupVars, tokenRoute >>
besidesCaptcha ==
  << formVars, flowVars, routeVars, profileVars, emails, signupVars, authPage >>

\* testData.passwordRequirements as the module initialises it.
PasswordRequirements ==
  [minLength |-> 9,
   mustContain |->
     [letters |-> TRUE, numbers |-> TRUE,
      specialChars |-> << <<"#">>, <<"?">>, <<"!">>, <<"@">>, <<"$">>,
                          <<"%">>, <<"^">>, <<"&">>, <<"*">>, <<"-">> >>]]

(***************************************************************************)
(* FormValidation: the validators                                          *)
(***************************************************************************)

\* The email pattern with the dot left unescaped: /^[^\s@]+@[^\s@]+.[^\s@]+$/
EmailRegexAnyDot ==
  LET part == ParseClass(<<"[", "^", "\\", "s", "@", "]">>)
      any == [neg |-> TRUE, ws |-> FALSE, ranges |-> {<<10, 10>>}]
  IN [anchorStart |-> TRUE, anchorEnd |-> TRUE,
      atoms |-> <<Plus(part), Once(Literal("@")), Plus(part), Once(any), Plus(part)>>]

\* /^[^\s@]+@[^\s@]+\.[^\s@]+$/
EmailRegex ==
  LET part == ParseClass(<<"[", "^", "\\", "s", "@", "]">>)
  IN [anchorStart |-> TRUE, anchorEnd |-> TRUE,
      atoms |-> <<Plus(part), Once(Literal("@")), Plus(part), Once(Literal(".")),
                  Plus(part)>>]

\* The phone pattern without its end anchor: /^[0-9]{9}/
PhoneRegexNoEnd ==
  [anchorStart |-> TRUE, anchorEnd |-> FALSE,
   atoms |-> <<Times(ParseClass(<<"[", "0", "-", "9", "]">>), 9)>>]

\* /^[0-9]{9}$/
PhoneRegex ==
  [anchorStart |-> TRUE, anchorEnd |-> TRUE,
   atoms |-> <<Times(ParseClass(<<"[", "0", "-", "9", "]">>), 9)>>]

\* /[a-zA-Z]/
LettersRegex == Anywhere(ParseClass(<<"[", "a", "-", "z", "A", "-", "Z", "]">>))

\* /[0-9]/
NumbersRegex == Anywhere(ParseClass(<<"[", "0", "-", "9", "]">>))

\* new RegExp(`[${requirements.mustContain.specialChars.join('\\')}]`)
SpecialCharsRegex(requirements) ==
  Anywhere(ParseClass(<<"[">> \o Join(requirements.mustContain.specialChars, <<"\\">>)
                      \o <<"]">>))

isValidEmail(v) == RegExpTest(EmailRegex, JsToString(v))

isValidPhone(v) == RegExpTest(PhoneRegex, JsToString(v))

\* The messages, as tuples of their parts (a template literal keeps the
\* interpolated value as a part).
MsgTooShort(n) == <<"Password must be at least ", n, " characters long">>
MsgLetters == <<"Password must include letters">>
MsgNumbers == <<"Password must include numbers">>
MsgSpecial ==
  <<"Password must include at least one special character (# ? ! @ $ % ^ & * -)">>
MsgEmailRequired == <<"Email is required">>
MsgEmailInvalid == <<"Please enter a valid email address">>
MsgPhoneRequired == <<"Phone number is required">>
MsgPhoneInvalid == <<"Please enter a valid phone number (+966XXXXXXXXX)">>
MsgPasswordRequired == <<"Password is required">>
MsgSigninEmailRequired == <<"Please enter your email address">>
MsgSigninPhoneInvalid == <<"Please enter a valid mobile number">>
MsgSigninPasswordRequired == <<"Please enter your password">>

\* const result = { isValid: true, errors: [] }
NewResult == [threw |-> FALSE, isValid |-> TRUE, errors |-> <<>>]

\* The call ended in a TypeError instead of returning a result.
Threw == [threw |-> TRUE, isValid |-> FALSE, errors |-> <<>>]

\* Fail with the assignment to isValid left out.
FailKeepsValid(r, msg) == [r EXCEPT !.errors = Append(@, msg)]

\* result.isValid = false; result.errors.push(msg)
Fail(r, msg) == [r EXCEPT !.isValid = FALSE, !.errors = Append(@, msg)]

\* TooShort with <= for <.
TooShortOffByOne(v, requirements) ==
  v.t = "string" /\ Len(v.s) <= requirements.minLength

\* password.length < requirements.minLength: the length of a number is
\* undefined, which compares false.
TooShort(v, requirements) == v.t = "string" /\ Len(v.s) < requirements.minLength

validatePassword(v) ==
  LET requirements == passwordRequirements
      text == JsToString(v)
      r0 == NewResult
      r1 == IF TooShort(v, requirements)
            THEN Fail(r0, MsgTooShort(requirements.minLength)) ELSE r0
      r2 == IF ~RegExpTest(LettersRegex, text) THEN Fail(r1, MsgLetters) ELSE r1
      r3 == IF ~RegExpTest(NumbersRegex, text) THEN Fail(r2, MsgNumbers) ELSE r2
      r4 == IF ~RegExpTest(SpecialCharsRegex(requirements), text)
            THEN Fail(r3, MsgSpecial) ELSE r3
  IN IF v.t \in {"undefined", "null"} THEN Threw ELSE r4

\* requirements.mustContain.specialChars after a pop(), which takes the last
\* element off the array.
SpecialCharsAfterPop(specialChars) == SubSeq(specialChars, 1, Len(specialChars) - 1)

\* requirements.mustContain.specialChars after join('\\'): join builds a new
\* string and leaves the array as it is.
SpecialCharsAfterJoin(specialChars) == specialChars

\* testData.passwordRequirements after validatePassword(v): the shared table
\* is read through the alias requirements, and a call that gets past
\* password.length reaches the join.
RequirementsAfterPassword(v, requirements) ==
  IF v.t \in {"undefined", "null"} THEN requirements
  ELSE [requirements EXCEPT !.mustContain.specialChars = SpecialCharsAfterJoin(@)]

\* v.trim() is a TypeError: v is truthy and has no trim method.
TrimThrows(v) == ~Falsy(v) /\ v.t # "string"

\* !v || v.trim() === ''
Blank(v) == Falsy(v) \/ (v.t = "string" /\ Trim(v.s) = <<>>)

\* CheckField with "if" for "else if": the format check also runs on a blank
\* field.
CheckFieldNoElse(r, v, valid, msgRequired, msgInvalid) ==
  LET r1 == IF Blank(v) THEN Fail(r, msgRequired) ELSE r
  IN IF ~valid THEN Fail(r1, msgInvalid) ELSE r1

\* The identity-field step shared by the two form validators: the field's
\* presence check, else its format check.
CheckField(r, v, valid, msgRequired, msgInvalid) ==
  IF Blank(v) THEN Fail(r, msgRequired)
  ELSE IF ~valid THEN Fail(r, msgInvalid)
  ELSE r

\* CheckSignupPassword testing !v alone, without the trim.
CheckSignupPasswordNoTrim(r, v) ==
  IF Falsy(v) THEN Fail(r, MsgPasswordRequired)
  ELSE LET passwordValidation == validatePassword(v)
       IN IF ~passwordValidation.isValid
          THEN [r EXCEPT !.isValid = FALSE,
                         !.errors = @ \o passwordValidation.errors]
          ELSE r

\* The password step of validateSignupForm.
CheckSignupPassword(r, v) ==
  IF Blank(v) THEN Fail(r, MsgPasswordRequired)
  ELSE LET passwordValidation == validatePassword(v)
       IN IF ~passwordValidation.isValid
          THEN [r EXCEPT !.isValid = FALSE,
                         !.errors = @ \o passwordValidation.errors]
          ELSE r

\* validateSignupForm testing the email whatever the mode.
validateSignupFormEmailOnly(fd, isEmailSignup) ==
  LET r1 == CheckField(NewResult, fd.email, isValidEmail(fd.email),
                       MsgEmailRequired, MsgEmailInvalid)
  IN IF TrimThrows(fd.email) \/ TrimThrows(fd.password) THEN Threw
     ELSE CheckSignupPassword(r1, fd.password)

validateSignupForm(fd, isEmailSignup) ==
  LET field == IF isEmailSignup THEN fd.email ELSE fd.phone
      r1 == IF isEmailSignup
            THEN CheckField(NewResult, fd.email, isValidEmail(fd.email),
                            MsgEmailRequired, MsgEmailInvalid)
            ELSE CheckField(NewResult, fd.phone, isValidPhone(fd.phone),
                            MsgPhoneRequired, MsgPhoneInvalid)
  IN IF TrimThrows(field) \/ TrimThrows(fd.password) THEN Threw
     ELSE CheckSignupPassword(r1, fd.password)

\* testData.passwordRequirements after validateSignupForm(fd, isEmailSignup),
\* which calls validatePassword when no trim threw and the password is not
\* blank.
RequirementsAfterSignup(fd, isEmailSignup, requirements) ==
  LET field == IF isEmailSignup THEN fd.email ELSE fd.phone
  IN IF TrimThrows(field) \/ TrimThrows(fd.password) \/ Blank(fd.password)
     THEN requirements
     ELSE RequirementsAfterPassword(fd.password, requirements)

\* CheckSigninPassword applying the password policy as sign-up does.
CheckSigninPasswordPolicy(r, v) ==
  IF Blank(v) THEN Fail(r, MsgSigninPasswordRequired)
  ELSE LET passwordValidation == validatePassword(v)
       IN IF ~passwordValidation.isValid
          THEN [r EXCEPT !.isValid = FALSE,
                         !.errors = @ \o passwordValidation.errors]
          ELSE r

\* The password step of validateSigninForm.
CheckSigninPassword(r, v) ==
  IF Blank(v) THEN Fail(r, MsgSigninPasswordRequired) ELSE r

\* validateSigninForm with the password step before the identity step.
validateSigninFormPasswordFirst(fd, isEmailSignin) ==
  LET field == IF isEmailSignin THEN fd.email ELSE fd.phone
      r1 == CheckSigninPassword(NewResult, fd.password)
  IN IF TrimThrows(field) \/ TrimThrows(fd.password) THEN Threw
     ELSE IF isEmailSignin
          THEN CheckField(r1, fd.email, isValidEmail(fd.email),
                          MsgSigninEmailRequired, MsgEmailInvalid)
          ELSE CheckField(r1, fd.phone, isValidPhone(fd.phone),
                          MsgPhoneRequired, MsgSigninPhoneInvalid)

validateSigninForm(fd, isEmailSignin) ==
  LET field == IF isEmailSignin THEN fd.email ELSE fd.phone
      r1 == IF isEmailSignin
            THEN CheckField(NewResult, fd.email, isValidEmail(fd.email),
                            MsgSigninEmailRequired, MsgEmailInvalid)
            ELSE CheckField(NewResult, fd.phone, isValidPhone(fd.phone),
                            MsgPhoneRequired, MsgSigninPhoneInvalid)
  IN IF TrimThrows(field) \/ TrimThrows(fd.password) THEN Threw
     ELSE CheckSigninPassword(r1, fd.password)

(***************************************************************************)
(* FormValidation: the generators                                          *)
(*                                                                         *)
(* Math.floor(Math.random() * n) is an input in 0 .. n-1; Date.now() is an *)
(* input given by its sign and decimal digits, a number beyond the         *)
(* integers the checker handles.                                           *)
(***************************************************************************)

\* ClockToString without the last digit.
ClockToStringTruncated(clock) ==
  (IF clock.negative THEN <<"-">> ELSE <<>>)
  \o [i \in 1 .. Len(clock.digits) - 1 |-> AsciiChars[17 + clock.digits[i]]]

\* The decimal string of a clock value.
ClockToString(clock) ==
  (IF clock.negative THEN <<"-">> ELSE <<>>)
  \o [i \in DOMAIN clock.digits |-> AsciiChars[17 + clock.digits[i]]]

\* generateRandomEmail with a space after the prefix.
generateRandomEmailSpaced(timestamp, random) ==
  Concat(<< <<"t", "e", "s", "t", "u", "s", "e", "r", " ">>, ClockToString(timestamp), NumberToString(random),
            <<"@", "e", "x", "a", "m", "p", "l", "e", ".", "c", "o", "m">> >>)

generateRandomEmail(timestamp, random) ==
  Concat(<< <<"t", "e", "s", "t", "u", "s", "e", "r">>, ClockToString(timestamp), NumberToString(random),
            <<"@", "e", "x", "a", "m", "p", "l", "e", ".", "c", "o", "m">> >>)

generateRandomPhone(random) ==
  <<"+", "9", "6", "6">> \o PadStart(NumberToString(random), 9, "0")

\* const letters, numbers, specialChars of generateValidPassword.
GenLetters == <<"A", "B", "C", "D", "E", "F", "G", "H", "I", "J", "K", "L", "M", "N", "O", "P", "Q", "R", "S", "T", "U", "V", "W", "X", "Y", "Z">>
              \o <<"a", "b", "c", "d", "e", "f", "g", "h", "i", "j", "k", "l", "m", "n", "o", "p", "q", "r", "s", "t", "u", "v", "w", "x", "y", "z">>
GenNumbers == <<"0", "1", "2", "3", "4", "5", "6", "7", "8", "9">>
GenSpecialChars == <<"#", "?", "!", "@", "$", "%", "^", "&", "*", "-">>

\* The length generateValidPassword fills the password up to.
GeneratedLength == 9

RECURSIVE FillRest(_, _, _, _)
\* for (let i = 0; i < remainingLength; i++) password += allChars[...]
FillRest(pw, fill, i, remainingLength) ==
  IF i >= remainingLength THEN pw
  ELSE LET allChars == GenLetters \o GenNumbers
       IN FillRest(Append(pw, allChars[fill[i + 1] + 1]), fill, i + 1, remainingLength)

\* A shuffle that fills every place with the character perm puts first.
ShuffleRepeating(chars, perm) == [i \in DOMAIN chars |-> chars[perm[1]]]

\* password.split('').sort(() => Math.random() - 0.5).join(''): with a random
\* comparator the sort leaves the characters in some order perm.
Shuffle(chars, perm) == [i \in DOMAIN chars |-> chars[perm[i]]]

\* generateValidPassword with the third character taken from numbers.
generateValidPasswordNoSpecial(draws, perm) ==
  LET p1 == <<GenLetters[draws.letter + 1]>>
      p2 == Append(p1, GenNumbers[draws.number + 1])
      p3 == Append(p2, GenNumbers[draws.special + 1])
      remainingLength == GeneratedLength - Len(p3)
  IN Shuffle(FillRest(p3, draws.fill, 0, remainingLength), perm)

\* draws: the indices drawn for the letter, the number, the special character
\* and the fill characters; perm: the order the sort leaves.
generateValidPassword(draws, perm) ==
  LET p1 == <<GenLetters[draws.letter + 1]>>
      p2 == Append(p1, GenNumbers[draws.number + 1])
      p3 == Append(p2, GenSpecialChars[draws.special + 1])
      remainingLength == GeneratedLength - Len(p3)
  IN Shuffle(FillRest(p3, draws.fill, 0, remainingLength), perm)

(***************************************************************************)
(* globalSetup: the route that blocks trackers                             *)
(***************************************************************************)

\* const blockedDomains
BlockedDomains ==
  {
    <<"g", "o", "o", "g", "l", "e", "t", "a", "g", "m", "a", "n", "a", "g", "e", "r", ".", "c", "o", "m">>,
    <<"g", "o", "o", "g", "l", "e", "-", "a", "n", "a", "l", "y", "t", "i", "c", "s", ".", "c", "o", "m">>,
    <<"w", "w", "w", ".", "g", "o", "o", "g", "l", "e", "-", "a", "n", "a", "l", "y", "t", "i", "c", "s", ".", "c", "o", "m">>,
    <<"a", "n", "a", "l", "y", "t", "i", "c", "s", ".", "g", "o", "o", "g", "l", "e", ".", "c", "o", "m">>,
    <<"w", "w", "w", ".", "g", "o", "o", "g", "l", "e", "t", "a", "g", "m", "a", "n", "a", "g", "e", "r", ".", "c", "o", "m">>,
    <<"w", "w", "w", ".", "g", "o", "o", "g", "l", "e", "a", "d", "s", "e", "r", "v", "i", "c", "e", "s", ".", "c", "o", "m">>,
    <<"d", "a", "t", "a", "d", "o", "g", "h", "q", ".", "c", "o", "m">>,
    <<"w", "w", "w", ".", "d", "a", "t", "a", "d", "o", "g", "h", "q", ".", "c", "o", "m">>,
    <<"d", "o", "u", "b", "l", "e", "c", "l", "i", "c", "k", ".", "n", "e", "t">>,
    <<"a", "d", "s", "e", "r", "v", "i", "c", "e", ".", "g", "o", "o", "g", "l", "e", ".", "c", "o", "m">>,
    <<"a", "d", "s", ".", "g", "o", "o", "g", "l", "e", ".", "c", "o", "m">>,
    <<"a", "d", "s", ".", "y", "a", "h", "o", "o", ".", "c", "o", "m">>,
    <<"h", "o", "t", "j", "a", "r", ".", "c", "o", "m">>,
    <<"w", "w", "w", ".", "h", "o", "t", "j", "a", "r", ".", "c", "o", "m">>,
    <<"f", "u", "l", "l", "s", "t", "o", "r", "y", ".", "c", "o", "m">>,
    <<"s", "e", "g", "m", "e", "n", "t", ".", "c", "o", "m">>,
    <<"f", "a", "c", "e", "b", "o", "o", "k", ".", "n", "e", "t">>,
    <<"c", "o", "n", "n", "e", "c", "t", ".", "f", "a", "c", "e", "b", "o", "o", "k", ".", "n", "e", "t">>,
    <<"l", "i", "n", "k", "e", "d", "i", "n", ".", "c", "o", "m">>,
    <<"w", "w", "w", ".", "l", "i", "n", "k", "e", "d", "i", "n", ".", "c", "o", "m">>,
    <<"t", "w", "i", "t", "t", "e", "r", ".", "c", "o", "m">>,
    <<"p", "l", "a", "t", "f", "o", "r", "m", ".", "t", "w", "i", "t", "t", "e", "r", ".", "c", "o", "m">>,
    <<"m", "a", "t", "o", "m", "o", ".", "o", "r", "g">>,
    <<"p", "i", "n", "t", "e", "r", "e", "s", "t", ".", "c", "o", "m">>,
    <<"w", "w", "w", ".", "p", "i", "n", "t", "e", "r", "e", "s", "t", ".", "c", "o", "m">>,
    <<"c", "r", "i", "t", "e", "o", ".", "c", "o", "m">>,
    <<"a", "p", "p", ".", "m", "e", "a", "s", "u", "r", "e", "m", "e", "n", "t", "a", "p", "i", ".", "c", "o", "m">>,
    <<"r", "e", "c", "a", "p", "t", "c", "h", "a", ".", "n", "e", "t">>,
    <<"g", "o", "o", "g", "l", "e", ".", "c", "o", "m", "/", "r", "e", "c", "a", "p", "t", "c", "h", "a">>,
    <<"/", "r", "e", "c", "a", "p", "t", "c", "h", "a", "/", "e", "n", "t", "e", "r", "p", "r", "i", "s", "e", ".", "j", "s">>,
    <<"/", "r", "e", "c", "a", "p", "t", "c", "h", "a", "/", "e", "n", "t", "e", "r", "p", "r", "i", "s", "e", "/", "a", "n", "c", "h", "o", "r">>,
    <<"/", "a", "p", "i", "/", "s", "p", "l", "i", "t", "C", "h", "a", "n", "g", "e", "s">>,
    <<"/", "a", "p", "i", "/", "m", "y", "S", "e", "g", "m", "e", "n", "t", "s">>,
    <<"/", "s", "s", "e">>,
    <<"/", "w", "i", "/", "c", "o", "n", "f", "i", "g">>
  }

\* s.includes(sub)
Includes(s, sub) ==
  \E i \in 1 .. Len(s) - Len(sub) + 1 : SubSeq(s, i, i + Len(sub) - 1) = sub

\* The handler of context.route('**/*', ...): it returns route.abort() for a
\* URL that includes a blocked entry and route.continue() for any other.
BlockRoute(url) ==
  IF \E domain \in BlockedDomains : Includes(url, domain) THEN "aborted" ELSE "continued"

\* What becomes of a request of a page in the context named context: the
\* handler decides when the context carries the route, else the request goes
\* to the network unrouted.
Routed(context, url) == IF context \in contexts THEN BlockRoute(url) ELSE "unrouted"

(***************************************************************************)
(* SignUpPage: the subscribe checkbox                                      *)
(***************************************************************************)

\* setSubscribeCheckbox clicking whatever the state.
setSubscribeCheckboxAlwaysClicks(isChecked, checked) ==
  [isChecked |-> ~isChecked, clicks |-> 1]

\* setSubscribeCheckbox(checked) on a checkbox whose isChecked() is isChecked:
\* the state the checkbox is left in, a click toggling it, and the clicks made.
setSubscribeCheckbox(isChecked, checked) ==
  IF checked # isChecked
  THEN [isChecked |-> ~isChecked, clicks |-> 1]
  ELSE [isChecked |-> isChecked, clicks |-> 0]

\* The endpoints the response helpers wait for.
SignupUrl == "/api/myaccount/v4/user/local/signup"
TokenUrl == "/api/myaccount/v3/auth/token"
MeUrl == "/api/myaccount/v4/user/me"
RevokeUrl == "/api/myaccount/v3/auth/revoke"

(***************************************************************************)
(* ApiHelpers: interceptAuthWithTestCaptcha                                *)
(***************************************************************************)

\* The value of a hexadecimal digit, -1 for any other character.
HexValue(c) ==
  LET code == Code(c)
  IN IF code \in 48 .. 57 THEN code - 48
     ELSE IF code \in 65 .. 70 THEN code - 55
     ELSE IF code \in 97 .. 102 THEN code - 87
     ELSE 0 - 1

HexDigits ==
  <<"0", "1", "2", "3", "4", "5", "6", "7", "8", "9", "A", "B", "C", "D", "E", "F">>

RECURSIVE FormDecode(_)
\* The decoding of a name or value by the application/x-www-form-urlencoded
\* parser: '+' is a space, %XX is the character of that code (of the printable
\* ASCII range here), anything else stands for itself.
FormDecode(s) ==
  IF s = <<>> THEN <<>>
  ELSE IF s[1] = "+" THEN <<" ">> \o FormDecode(Tail(s))
  ELSE IF /\ s[1] = "%" /\ Len(s) >= 3
          /\ HexValue(s[2]) >= 0 /\ HexValue(s[3]) >= 0
          /\ 16 * HexValue(s[2]) + HexValue(s[3]) \in 32 .. 126
       THEN <<AsciiChars[16 * HexValue(s[2]) + HexValue(s[3]) - 31]>>
              \o FormDecode(SubSeq(s, 4, Len(s)))
  ELSE <<s[1]>> \o FormDecode(Tail(s))

RECURSIVE FormEncode(_)
\* The encoding of a name or value by the application/x-www-form-urlencoded
\* serializer: letters, digits and * - . _ stand for themselves, a space is
\* '+', any other character is %XX.
FormEncode(s) ==
  IF s = <<>> THEN <<>>
  ELSE LET c == s[1]
           code == Code(c)
       IN (IF \/ code \in 48 .. 57 \/ code \in 65 .. 90 \/ code \in 97 .. 122
              \/ c \in {"*", "-", ".", "_"}
           THEN <<c>>
           ELSE IF c = " " THEN <<"+">>
           ELSE <<"%", HexDigits[(code \div 16) + 1], HexDigits[(code % 16) + 1]>>)
          \o FormEncode(Tail(s))

RECURSIVE Split(_, _)
\* String.prototype.split on a one-character separator.
Split(s, sep) ==
  IF \A i \in DOMAIN s : s[i] # sep THEN <<s>>
  ELSE LET at == CHOOSE i \in DOMAIN s : s[i] = sep /\ \A j \in 1 .. i - 1 : s[j] # sep
       IN <<SubSeq(s, 1, at - 1)>> \o Split(SubSeq(s, at + 1, Len(s)), sep)

RECURSIVE ParsePieces(_)
\* The name-value pairs of the pieces between '&': an empty piece gives none,
\* a piece without '=' gives a name with an empty value.
ParsePieces(pieces) ==
  IF pieces = <<>> THEN <<>>
  ELSE LET piece == Head(pieces)
           parts == Split(piece, "=")
           name == parts[1]
           value == SubSeq(piece, Len(name) + 2, Len(piece))
       IN (IF piece = <<>> THEN <<>>
           ELSE << <<FormDecode(name), FormDecode(value)>> >>)
          \o ParsePieces(Tail(pieces))

\* new URLSearchParams(postData): a leading '?' is dropped, the rest parsed.
URLSearchParams(postData) ==
  ParsePieces(Split(IF postData # <<>> /\ postData[1] = "?" THEN Tail(postData)
                    ELSE postData, "&"))

\* set that appends whatever the list holds.
SetParamAppends(params, name, value) == Append(params, <<name, value>>)

\* params.set(name, value): the first pair of that name takes the value and
\* the others of that name go; without such a pair one is appended.
SetParam(params, name, value) ==
  IF \A i \in DOMAIN params : params[i][1] # name
  THEN Append(params, <<name, value>>)
  ELSE LET first == CHOOSE i \in DOMAIN params :
                      params[i][1] = name /\ \A j \in 1 .. i - 1 : params[j][1] # name
           Kept(i) == i = first \/ params[i][1] # name
           F[i \in 0 .. Len(params)] ==
             IF i = 0 THEN <<>>
             ELSE IF ~Kept(i) THEN F[i - 1]
             ELSE Append(F[i - 1], IF i = first THEN <<name, value>> ELSE params[i])
       IN F[Len(params)]

\* params.toString()
ParamsToString(params) ==
  Join([i \in DOMAIN params |->
          FormEncode(params[i][1]) \o <<"=">> \o FormEncode(params[i][2])],
       <<"&">>)

\* 'captchaToken' and 'TestCaptchaTokenForDevAndStaging'
CaptchaParam == <<"c", "a", "p", "t", "c", "h", "a", "T", "o", "k", "e", "n">>
TestCaptchaToken == <<"T", "e", "s", "t", "C", "a", "p", "t", "c", "h", "a", "T", "o", "k", "e", "n", "F", "o", "r", "D", "e", "v", "A", "n", "d", "S", "t", "a", "g", "i", "n", "g">>

\* The handler of page.route('**/api/myaccount/v3/auth/token', ...): the
\* request it continues with.
CaptchaHandler(req) ==
  LET postData == IF Falsy(req.postData) THEN <<>> ELSE req.postData.s
      params == SetParam(URLSearchParams(postData), CaptchaParam, TestCaptchaToken)
  IN [url |-> req.url, method |-> "POST", headers |-> req.headers,
      postData |-> Str(ParamsToString(params))]

\* What the network gets of a request of the page: the handler's request for
\* a URL the route's pattern matches, the request itself for any other.
CaptchaRoute(req) ==
  IF req.url = TokenUrl THEN <<CaptchaHandler(req)>> ELSE <<req>>

(***************************************************************************)
(* ProfilePage: validateSuccessfulAuth                                     *)
(***************************************************************************)

\* '/myaccount/profile'
ProfilePath == <<"/", "m", "y", "a", "c", "c", "o", "u", "n", "t", "/", "p", "r", "o", "f", "i", "l", "e">>

\* The check of an email the page shows against the expected one: skipped
\* when the page shows none (the empty string is falsy), else a comparison of
\* the two trimmed.
CheckShownEmail(r, shown, expectedEmail, msg) ==
  IF shown # <<>> /\ Trim(shown) # Trim(expectedEmail)
  THEN Fail(r, <<msg, expectedEmail, ", got ", shown>>)
  ELSE r

\* validateSuccessfulAuth without its last check.
validateSuccessfulAuthNoLogoutCheck(page, expectedEmail) ==
  IF ~page.appeared THEN Threw
  ELSE
    LET r1 == IF ~Includes(page.url, ProfilePath)
              THEN Fail(NewResult,
                        <<"Expected to be on profile page, current URL: ", page.url>>)
              ELSE NewResult
        r2 == CheckShownEmail(r1, page.displayedEmail, expectedEmail, "Expected email ")
        r3 == CheckShownEmail(r2, page.inputEmail, expectedEmail,
                              "Expected email in input ")
    IN IF ~page.profileButton THEN Fail(r3, "Verify account button is not visible")
       ELSE r3

\* validateSuccessfulAuth(expectedEmail) on a page: the wait for the profile
\* button, which throws when the button does not appear in 15 s, then the
\* five checks in their order.  page.profileButton and page.logoutButton are
\* what isVisible() answers when the checks get to them.
validateSuccessfulAuth(page, expectedEmail) ==
  IF ~page.appeared THEN Threw
  ELSE
    LET r1 == IF ~Includes(page.url, ProfilePath)
              THEN Fail(NewResult,
                        <<"Expected to be on profile page, current URL: ", page.url>>)
              ELSE NewResult
        r2 == CheckShownEmail(r1, page.displayedEmail, expectedEmail, "Expected email ")
        r3 == CheckShownEmail(r2, page.inputEmail, expectedEmail,
                              "Expected email in input ")
        r4 == IF ~page.profileButton
              THEN Fail(r3, "Verify account button is not visible")
              ELSE r3
    IN IF ~page.logoutButton THEN Fail(r4, "Logout button is not visible") ELSE r4

(***************************************************************************)
(* ApiHelpers: the response validators                                     *)
(***************************************************************************)

\* validateSignupResponse taking 200 alone for success.
validateSignupResponseOnly200(response, expectSuccess) ==
  IF expectSuccess
  THEN IF response.status # 200
       THEN Fail(NewResult, <<"Expected success status (200/201), got ", response.status>>)
       ELSE NewResult
  ELSE IF response.status # 400
       THEN Fail(NewResult, <<"Expected error status (400), got ", response.status>>)
       ELSE NewResult

validateSignupResponse(response, expectSuccess) ==
  IF expectSuccess
  THEN IF response.status # 200 /\ response.status # 201
       THEN Fail(NewResult, <<"Expected success status (200/201), got ", response.status>>)
       ELSE NewResult
  ELSE IF response.status # 400
       THEN Fail(NewResult, <<"Expected error status (400), got ", response.status>>)
       ELSE NewResult

\* validateSigninResponse taking 403 as well as 400 for an expected failure.
validateSigninResponseAlso403(response, expectSuccess) ==
  IF expectSuccess
  THEN IF response.status # 200
       THEN Fail(NewResult, <<"Expected success status (200), got ", response.status>>)
       ELSE NewResult
  ELSE IF response.status # 400 /\ response.status # 403
       THEN Fail(NewResult, <<"Expected error status (400), got ", response.status>>)
       ELSE NewResult

validateSigninResponse(response, expectSuccess) ==
  IF expectSuccess
  THEN IF response.status # 200
       THEN Fail(NewResult, <<"Expected success status (200), got ", response.status>>)
       ELSE NewResult
  ELSE IF response.status # 400
       THEN Fail(NewResult, <<"Expected error status (400), got ", response.status>>)
       ELSE NewResult

validateLogoutResponse(response) ==
  IF response.status # 204
  THEN Fail(NewResult, <<"Expected logout status (204), got ", response.status>>)
  ELSE NewResult

(***************************************************************************)
(* The inputs: testData fixtures, the literals of the tests, and short     *)
(* strings enumerated over small alphabets                                 *)
(***************************************************************************)

\* The longest enumerated email argument.
MaxEmailLen == 5

\* The longest filler appended to an enumerated password.
MaxPad == 9

\* The most digits in the phone arguments that are tried.
MaxDigits == 10

\* The most clickLogout calls a test makes.
MaxClicks == 3

\* testData.valid.validEmails and testData.edgeCases.emails
ValidEmails ==
  {
    <<"u", "s", "e", "r", "1", "@", "e", "x", "a", "m", "p", "l", "e", ".", "c", "o", "m">>,
    <<"u", "s", "e", "r", "2", "@", "t", "e", "s", "t", ".", "c", "o", "m">>,
    <<"u", "s", "e", "r", "3", "@", "d", "o", "m", "a", "i", "n", ".", "c", "o", ".", "u", "k">>,
    <<"a", "@", "b", ".", "c", "o">>,
    <<"u", "s", "e", "r", "+", "t", "a", "g", "@", "e", "x", "a", "m", "p", "l", "e", ".", "c", "o", "m">>,
    <<"u", "s", "e", "r", ".", "n", "a", "m", "e", "@", "e", "x", "a", "m", "p", "l", "e", ".", "c", "o", "m">>,
    <<"u", "s", "e", "r", "1", "2", "3", "@", "s", "u", "b", "d", "o", "m", "a", "i", "n", ".", "e", "x", "a", "m", "p", "l", "e", ".", "c", "o", "m">>
  }

\* testData.invalid.emails
InvalidEmails ==
  {
    <<"i", "n", "v", "a", "l", "i", "d", "-", "e", "m", "a", "i", "l">>,
    <<"@", "e", "x", "a", "m", "p", "l", "e", ".", "c", "o", "m">>,
    <<"u", "s", "e", "r", "@">>,
    <<"u", "s", "e", "r", "@", ".", "c", "o", "m">>,
    <<"u", "s", "e", "r", "@", "d", "o", "m", "a", "i", "n">>,
    <<>>,
    <<"u", "s", "e", "r", " ", "s", "p", "a", "c", "e", "@", "e", "x", "a", "m", "p", "l", "e", ".", "c", "o", "m">>,
    <<"u", "s", "e", "r", "@", "d", "o", "m", "a", "i", "n", ".", ".", "c", "o", "m">>
  }

\* testData.valid.phone and testData.valid.validPhones
ValidPhones ==
  {
    <<"+", "9", "6", "6", "5", "0", "1", "2", "3", "4", "5", "6", "7">>,
    <<"+", "9", "6", "6", "5", "0", "1", "2", "3", "4", "5", "6", "8">>,
    <<"+", "9", "6", "6", "5", "0", "1", "2", "3", "4", "5", "6", "9">>
  }

\* testData.invalid.phones
InvalidPhones ==
  {
    <<"1", "2", "3", "4", "5", "6", "7", "8", "9">>,
    <<"+", "9", "6", "6", "1", "2", "3">>,
    <<"+", "9", "6", "6", "1", "2", "3", "4", "5", "6", "7", "8", "9", "0", "1", "2", "3", "4", "5">>,
    <<"a", "b", "c", "1", "2", "3", "4", "5", "6", "7", "8", "9">>,
    <<>>,
    <<"+", "9", "6", "6", "-", "1", "2", "3", "-", "4", "5", "6", "-", "7", "8", "9">>,
    <<"9", "6", "6", "5", "0", "1", "2", "3", "4", "5", "6", "7">>
  }

\* testData.valid.password and testData.valid.validPasswords
ValidPasswords ==
  {
    <<"T", "e", "s", "t", "P", "a", "s", "s", "1", "2", "3", "!">>,
    <<"P", "a", "s", "s", "w", "o", "r", "d", "1", "2", "3", "!">>,
    <<"T", "e", "s", "t", "P", "a", "s", "s", "4", "5", "6", "@">>,
    <<"M", "y", "P", "a", "s", "s", "7", "8", "9", "#">>
  }

\* testData.invalid.passwords
InvalidPasswords ==
  {
    <<"1", "2", "3", "4", "5", "6", "7", "8">>,
    <<"p", "a", "s", "s", "w", "o", "r", "d">>,
    <<"P", "a", "s", "s", "1", "2", "3">>,
    <<"P", "a", "s", "s", "w", "o", "r", "d">>,
    <<"1", "2", "3", "4", "5", "6", "7", "8", "9">>,
    <<"P", "a", "s", "s", "w", "o", "r", "d", "!">>,
    <<"P", "a", "s", "s", "w", "o", "r", "d", "1", "2", "3">>,
    <<>>,
    <<"P", "a", "s", "s", "1", "!">>,
    <<"P", "a", "s", "s", "w", "o", "r", "d", "1", "2", "3", "4", "5", "6", "7", "8", "9", "!">>
  }

\* testData.edgeCases.passwords
EdgePasswords ==
  {
    <<"T", "e", "s", "t", "1", "2", "3", "!">>,
    <<"A", "1", "!", "b", "c", "d", "e", "f", "g">>,
    <<"1", "2", "3", "4", "5", "6", "7", "8", "9", "!">>,
    <<"A", "b", "c", "d", "e", "f", "g", "h", "!">>
  }

\* The URLs a test's page requests.
RequestUrls ==
  {
    <<"h", "t", "t", "p", "s", ":", "/", "/", "w", "w", "w", ".", "g", "o", "o", "g", "l", "e", "t", "a", "g", "m", "a", "n", "a", "g", "e", "r", ".", "c", "o", "m", "/", "g", "t", "m", ".", "j", "s", "?", "i", "d", "=", "G", "T", "M", "-", "1">>,
    <<"h", "t", "t", "p", "s", ":", "/", "/", "w", "w", "w", ".", "g", "o", "o", "g", "l", "e", ".", "c", "o", "m", "/", "r", "e", "c", "a", "p", "t", "c", "h", "a", "/", "e", "n", "t", "e", "r", "p", "r", "i", "s", "e", ".", "j", "s">>,
    <<"h", "t", "t", "p", "s", ":", "/", "/", "n", "e", "x", "t", "-", "s", "t", "a", "g", "i", "n", "g", ".", "a", "l", "m", "o", "s", "a", "f", "e", "r", ".", "c", "o", "m", "/", "a", "p", "i", "/", "s", "p", "l", "i", "t", "C", "h", "a", "n", "g", "e", "s", "?", "s", "i", "n", "c", "e", "=", "-", "1">>,
    <<"h", "t", "t", "p", "s", ":", "/", "/", "n", "e", "x", "t", "-", "s", "t", "a", "g", "i", "n", "g", ".", "a", "l", "m", "o", "s", "a", "f", "e", "r", ".", "c", "o", "m", "/", "e", "n", "/", "s", "i", "g", "n", "i", "n">>,
    <<"h", "t", "t", "p", "s", ":", "/", "/", "n", "e", "x", "t", "-", "s", "t", "a", "g", "i", "n", "g", ".", "a", "l", "m", "o", "s", "a", "f", "e", "r", ".", "c", "o", "m", "/", "a", "p", "i", "/", "m", "y", "a", "c", "c", "o", "u", "n", "t", "/", "v", "3", "/", "a", "u", "t", "h", "/", "t", "o", "k", "e", "n">>,
    <<"h", "t", "t", "p", "s", ":", "/", "/", "n", "e", "x", "t", "-", "s", "t", "a", "g", "i", "n", "g", ".", "a", "l", "m", "o", "s", "a", "f", "e", "r", ".", "c", "o", "m", "/", "a", "s", "s", "e", "t", "s", "/", "a", "p", "p", ".", "j", "s">>
  }

\* Every string over the alphabet of length at most n.
StringsUpTo(alphabet, n) == UNION {[1 .. k -> alphabet] : k \in 0 .. n}

\* The arguments isValidEmail is called with.
EmailArgs ==
  {Undefined, Null, Num(5)}
  \cup {Str(s) : s \in StringsUpTo({"a", "@", ".", " "}, MaxEmailLen)
                       \cup ValidEmails \cup InvalidEmails
                       \cup {<<"u", "s", "e", "r", "@", "e", "x", "a", "m", "p", "l", "e", ".", "c", "o", "m">>}}

\* Strings of up to MaxDigits digits between a prefix and a suffix that are
\* empty or hold what phone numbers are written with.
DigitStrings ==
  LET run == <<"5", "0", "1", "2", "3", "4", "5", "6", "7", "8", "9", "0">>
      digits == {SubSeq(run, 1, n) : n \in 0 .. MaxDigits}
                  \cup {Repeat(d, n) : d \in {"0", "9"}, n \in 0 .. MaxDigits}
      prefix == {<<>>, <<"+", "9", "6", "6">>, <<"+">>, <<"a">>, <<"/">>, <<" ">>}
      suffix == {<<>>, <<"a">>, <<"-">>, <<":">>, <<" ">>, <<"\n">>}
  IN {a \o d \o b : a \in prefix, d \in digits, b \in suffix}
       \cup {SubSeq(d, 1, k) \o <<c>> \o SubSeq(d, k + 1, Len(d)) :
               d \in {x \in digits : Len(x) >= 5}, k \in {1, 4}, c \in {"-", "a", " "}}

\* The arguments isValidPhone is called with.
PhoneArgs ==
  {Undefined, Null, Num(501234567), Num(50123456)}
  \cup {Str(s) : s \in DigitStrings}
  \cup {Str(s) : s \in ValidPhones \cup InvalidPhones
                       \cup {<<"5", "0", "1", "2", "3", "4", "5", "6", "7">>, <<"5", "0", "1", "2", "3", "4", "5", "6">>, <<"5", "0", "1", "2", "3", "4", "5", "6", "7", "8">>,
                             <<" ", "5", "0", "1", "2", "3", "4", "5", "6", "7">>, <<"5", "0", "1", "2", "3", "4", "5", "6", "a">>}}

\* The arguments validatePassword is called with: at most one character from
\* around each class, then a filler that is in no class.
PasswordArgs ==
  LET opt(chars) == {<<>>} \cup {<<c>> : c \in chars}
      first == opt({"a", "z", "A", "Z", "GRAVE", "{", "["})
      second == opt({"0", "9", "/", ":"})
      third == opt({"#", "?", "!", "@", "$", "%", "^", "&", "*", "-",
                    "\\", "+", ",", ".", " "})
  IN {Undefined, Null, Num(5)}
     \cup {Str(a \o b \o c \o Repeat("_", n)) :
             a \in first, b \in second, c \in third, n \in 0 .. MaxPad}
     \cup {Str(s) : s \in ValidPasswords \cup InvalidPasswords \cup EdgePasswords
                          \cup {<<"q", "w", "a", "s", "z", "x", "@", "1", "A">>, <<"T", "e", "s", "t", "1", "2", "3", "4", "#">>}}

\* The field values the form validators are called with.
FormEmails ==
  {Undefined, Null, Num(0), Num(5)}
  \cup {Str(s) : s \in {<<>>, <<" ">>, <<"\t", " ">>,
                        <<"a", "@", "b", ".", "c", "o">>, <<" ", "a", "@", "b", ".", "c", "o">>,
                        <<"i", "n", "v", "a", "l", "i", "d", "-", "e", "m", "a", "i", "l">>, <<"u", "s", "e", "r", "@", "d", "o", "m", "a", "i", "n">>, <<"v", "a", "l", "i", "d", "@", "e", "x", "a", "m", "p", "l", "e", ".", "c", "o", "m">>}}

FormPhones ==
  {Undefined, Num(501234567)}
  \cup {Str(s) : s \in {<<>>, <<" ">>,
                        <<"5", "0", "1", "2", "3", "4", "5", "6", "7">>, <<"+", "9", "6", "6", "5", "0", "1", "2", "3", "4", "5", "6", "7">>,
                        <<"1", "2", "3", "4", "5", "6", "7", "8", "9">>, <<"5", "0", "1", "2", "3", "4", "5", "6">>}}

FormPasswords ==
  {Undefined, Null, Num(0), Num(5)}
  \cup {Str(s) : s \in {<<>>, <<" ">>, Repeat(" ", 9), <<"x">>,
                        <<"s", "h", "o", "r", "t">>, <<"T", "e", "s", "t", "1", "2", "3", "!">>, <<"T", "e", "s", "t", "1", "2", "3", "4", "!">>,
                        <<"1", "2", "3", "4", "5", "6", "7", "8">>, <<"A", "b", "c", "1", "2", "3", "4", "5", "6", "!">>, <<" ", "T", "e", "s", "t", "1", "2", "3", "4", "!", " ">>}}

LiteralForms ==
  [email : FormEmails, phone : FormPhones, password : FormPasswords]

\* The forms the tests build from the fixture lists: each invalid email with
\* 'Test1234!', each phone fixture with valid.password and with 'Test123!',
\* a valid email with each invalid password.
FixtureForms ==
  {[email |-> Str(e), phone |-> Undefined,
    password |-> Str(<<"T", "e", "s", "t", "1", "2", "3", "4", "!">>)] : e \in InvalidEmails}
  \cup {[email |-> Undefined, phone |-> Str(p), password |-> Str(w)] :
          p \in ValidPhones \cup InvalidPhones,
          w \in {<<"T", "e", "s", "t", "P", "a", "s", "s", "1", "2", "3", "!">>,
                 <<"T", "e", "s", "t", "1", "2", "3", "!">>}}
  \cup {[email |-> Str(<<"u", "s", "e", "r", "1", "@", "e", "x", "a", "m", "p", "l", "e", ".", "c", "o", "m">>),
         phone |-> Undefined, password |-> Str(w)] : w \in InvalidPasswords}

\* A sample of 0 .. n-1, the range of Math.floor(Math.random() * n).
Extremes(n) == {0, n - 1}
Spread(n) == {0, 1, n \div 2, n - 1}

\* A sample of the values of Date.now().
ClockSamples ==
  {[negative |-> FALSE, digits |-> <<0>>],
   [negative |-> FALSE, digits |-> <<1, 7, 6, 2, 0, 6, 6, 8, 0, 0, 0, 0, 0>>],
   [negative |-> TRUE, digits |-> <<1>>]}

\* The clock values two calls in one test are given: the values of this
\* millisecond and the next, and short values such as a clock set near 1970
\* returns.
ClockPairSamples ==
  {[negative |-> FALSE, digits |-> <<1, 7, 6, 2, 0, 6, 6, 8, 0, 0, 0, 0, 0>>],
   [negative |-> FALSE, digits |-> <<1, 7, 6, 2, 0, 6, 6, 8, 0, 0, 0, 0, 1>>],
   [negative |-> FALSE, digits |-> <<1>>],
   [negative |-> FALSE, digits |-> <<1, 5>>],
   [negative |-> FALSE, digits |-> <<1, 5, 0>>]}

\* A sample of the orders the shuffle can leave n characters in: as they
\* were, rotated by one or two places, and reversed.
Shuffles(n) ==
  {[i \in 1 .. n |-> ((i - 1 + k) % n) + 1] : k \in 0 .. 2}
  \cup {[i \in 1 .. n |-> n + 1 - i]}

\* A sample of the fill draws: the first j draws are the least index, the
\* others the greatest.
FillSamples(k, n) == {[i \in 1 .. k |-> IF i <= j THEN 0 ELSE n - 1] : j \in 0 .. k}

\* The draws of one generateValidPassword call.
PasswordDraws ==
  [letter : Extremes(Len(GenLetters)), number : Extremes(Len(GenNumbers)),
   special : Spread(Len(GenSpecialChars)),
   fill : FillSamples(GeneratedLength - 3, Len(GenLetters) + Len(GenNumbers))]

(***************************************************************************)
(* The state machine: a test draws its fixtures from the generators or     *)
(* takes literals, calls one validator, and the next test starts afresh.   *)
(***************************************************************************)

NoForm == [email |-> Undefined, phone |-> Undefined, password |-> Undefined]

\* No page with the captcha route has sent a request.
NoTokenRoute == [installed |-> FALSE, request |-> <<>>, sent |-> <<>>]

\* The test has not called validateSuccessfulAuth.
NoAuthPage ==
  [appeared |-> FALSE, url |-> <<>>, displayedEmail |-> <<>>, inputEmail |-> <<>>,
   profileButton |-> FALSE, logoutButton |-> FALSE, expectedEmail |-> <<>>]

\* The test has not called setSubscribeCheckbox.
NoSetCall == [made |-> FALSE, checked |-> FALSE, before |-> FALSE, clicks |-> 0,
              repeated |-> FALSE]

\* The page has requested nothing.
NoRequest == [url |-> <<>>, outcome |-> "none"]

\* The test has not repeated its call.
NotAgain == [done |-> FALSE, between |-> FALSE, result |-> NewResult, ok |-> FALSE]

Init ==
  /\ passwordRequirements = PasswordRequirements
  /\ email = Undefined
  /\ phone = Undefined
  /\ password = Undefined
  /\ entropy = <<>>
  /\ pc = "setup"
  /\ fn = "none"
  /\ formData = NoForm
  /\ isEmailMode = TRUE
  /\ arg = Undefined
  /\ result = NewResult
  /\ ok = FALSE
  /\ again = NotAgain
  /\ flow = "none"
  /\ inflight = {}
  /\ waiter = "none"
  /\ resolved = <<>>
  /\ expecting = TRUE
  /\ contexts = {}
  /\ request = NoRequest
  /\ session = "signedOut"
  /\ clicks = 0
  /\ emails = <<>>
  /\ subscribed = FALSE
  /\ setCall = NoSetCall
  /\ authPage = NoAuthPage
  /\ tokenRoute = NoTokenRoute

\* The test holds no generated fixture yet.
NoFixture == email = Undefined /\ phone = Undefined /\ password = Undefined

\* globalSetup: it launches a browser, opens a context, installs the blocking
\* route on that context and closes the browser, which closes the context.
\* The tests start after it.
GlobalSetup ==
  /\ pc = "setup"
  /\ LET routed == contexts \cup {"globalSetup"}
     IN contexts' = routed \ {"globalSetup"}
  /\ fn' = "globalSetup"
  /\ pc' = "test"
  /\ UNCHANGED << request, result >>
  /\ UNCHANGED besidesRoute

\* The page of the running test, which lives in the context the test runner
\* opened for the test, requests a URL.
PageRequest ==
  /\ pc = "test" /\ NoFixture
  /\ \E url \in RequestUrls :
       request' = [url |-> url, outcome |-> Routed("test", url)]
  /\ fn' = "request"
  /\ pc' = "requested"
  /\ UNCHANGED << contexts, result >>
  /\ UNCHANGED besidesRoute

\* A test calls generateRandomEmail twice, for the form it fills and for the
\* form it validates.
GenerateTwoEmails ==
  /\ pc = "test" /\ NoFixture
  /\ \E t1, t2 \in ClockPairSamples, r1, r2 \in Spread(1000) :
       emails' = <<[timestamp |-> t1, random |-> r1, email |-> generateRandomEmail(t1, r1)],
                   [timestamp |-> t2, random |-> r2, email |-> generateRandomEmail(t2, r2)]>>
  /\ fn' = "generateRandomEmail"
  /\ pc' = "generated"
  /\ UNCHANGED result
  /\ UNCHANGED besidesEmails

\* const email = FormValidation.generateRandomEmail()
GenerateRandomEmail ==
  /\ pc = "test" /\ NoFixture
  /\ \E timestamp \in ClockSamples, random \in Spread(1000) :
       /\ email' = Str(generateRandomEmail(timestamp, random))
       /\ entropy' = <<timestamp, random>>
  /\ fn' = "generateRandomEmail"
  /\ UNCHANGED << passwordRequirements, phone, password, pc, formData, isEmailMode,
                  arg, result, ok, again >>
  /\ UNCHANGED flowVars
  /\ UNCHANGED pageVars

\* const phone = FormValidation.generateRandomPhone()
GenerateRandomPhone ==
  /\ pc = "test" /\ NoFixture
  /\ \E random \in Spread(1000000000) :
       /\ phone' = Str(generateRandomPhone(random))
       /\ entropy' = <<random>>
  /\ fn' = "generateRandomPhone"
  /\ UNCHANGED << passwordRequirements, email, password, pc, formData, isEmailMode,
                  arg, result, ok, again >>
  /\ UNCHANGED flowVars
  /\ UNCHANGED pageVars

\* const password = FormValidation.generateValidPassword()
GenerateValidPassword ==
  /\ pc = "test" /\ password = Undefined
  /\ \E draws \in PasswordDraws, perm \in Shuffles(GeneratedLength) :
       /\ password' = Str(generateValidPassword(draws, perm))
       /\ entropy' = <<draws, perm>>
  /\ fn' = "generateValidPassword"
  /\ UNCHANGED << passwordRequirements, email, phone, pc, formData, isEmailMode,
                  arg, result, ok, again >>
  /\ UNCHANGED flowVars
  /\ UNCHANGED pageVars

\* The forms a test validates: the generated fixtures it holds, else literals.
TestForms ==
  IF NoFixture THEN LiteralForms \cup FixtureForms
  ELSE {[email |-> email, phone |-> phone, password |-> w] :
          w \in IF password = Undefined
                THEN {Undefined} \cup {Str(x) : x \in InvalidPasswords}
                ELSE {password}}

\* The arguments a test passes to a one-argument validator.
TestArgs(generated, literals) ==
  IF NoFixture THEN literals
  ELSE IF generated = Undefined THEN {} ELSE {generated}

\* A call of a boolean validator returns b.
ReturnBool(name, v, b) ==
  /\ fn' = name
  /\ arg' = v
  /\ ok' = b
  /\ pc' = "returned"
  /\ UNCHANGED << passwordRequirements, email, phone, password, entropy, formData,
                  isEmailMode, result, again >>
  /\ UNCHANGED flowVars
  /\ UNCHANGED pageVars

IsValidEmail ==
  /\ pc = "test"
  /\ \E v \in TestArgs(email, EmailArgs) : ReturnBool("isValidEmail", v, isValidEmail(v))

IsValidPhone ==
  /\ pc = "test"
  /\ \E v \in TestArgs(phone, PhoneArgs) : ReturnBool("isValidPhone", v, isValidPhone(v))

ValidatePassword ==
  /\ pc = "test"
  /\ \E v \in TestArgs(password, PasswordArgs) :
       /\ fn' = "validatePassword"
       /\ arg' = v
       /\ result' = validatePassword(v)
       /\ passwordRequirements' = RequirementsAfterPassword(v, passwordRequirements)
  /\ pc' = "returned"
  /\ UNCHANGED << email, phone, password, entropy, formData, isEmailMode, ok, again >>
  /\ UNCHANGED flowVars
  /\ UNCHANGED pageVars

\* A call of a form validator returns r.
ReturnForm(name, fd, mode, r) ==
  /\ fn' = name
  /\ formData' = fd
  /\ isEmailMode' = mode
  /\ result' = r
  /\ pc' = "returned"
  /\ UNCHANGED << email, phone, password, entropy, arg, ok, again >>
  /\ UNCHANGED flowVars
  /\ UNCHANGED pageVars

ValidateSignupForm ==
  /\ pc = "test"
  /\ \E fd \in TestForms, mode \in BOOLEAN :
       /\ ReturnForm("validateSignupForm", fd, mode, validateSignupForm(fd, mode))
       /\ passwordRequirements' = RequirementsAfterSignup(fd, mode, passwordRequirements)

ValidateSigninForm ==
  /\ pc = "test"
  /\ \E fd \in TestForms, mode \in BOOLEAN :
       ReturnForm("validateSigninForm", fd, mode, validateSigninForm(fd, mode))
  /\ UNCHANGED passwordRequirements

\* The five validators.
Validators ==
  {"isValidEmail", "isValidPhone", "validatePassword", "validateSignupForm",
   "validateSigninForm"}

\* Between a call and its repetition the test validates another password:
\* valid.password.
CallBetween ==
  /\ pc = "returned" /\ fn \in Validators
  /\ ~again.done /\ ~again.between
  /\ again' = [again EXCEPT !.between = TRUE]
  /\ passwordRequirements' =
       RequirementsAfterPassword(Str(<<"T", "e", "s", "t", "P", "a", "s", "s", "1", "2", "3", "!">>),
                                 passwordRequirements)
  /\ UNCHANGED << email, phone, password, entropy, pc, fn, formData, isEmailMode, arg,
                  result, ok >>
  /\ UNCHANGED flowVars
  /\ UNCHANGED pageVars

\* The test repeats its call with the same arguments and keeps what the
\* second call returned.
CallAgain ==
  /\ pc = "returned" /\ fn \in Validators
  /\ ~again.done
  /\ again' =
       [again EXCEPT
          !.done = TRUE,
          !.result = CASE fn = "validatePassword" -> validatePassword(arg)
                       [] fn = "validateSignupForm" -> validateSignupForm(formData, isEmailMode)
                       [] fn = "validateSigninForm" -> validateSigninForm(formData, isEmailMode)
                       [] OTHER -> @,
          !.ok = CASE fn = "isValidEmail" -> isValidEmail(arg)
                   [] fn = "isValidPhone" -> isValidPhone(arg)
                   [] OTHER -> @]
  /\ passwordRequirements' =
       CASE fn = "validatePassword" -> RequirementsAfterPassword(arg, passwordRequirements)
         [] fn = "validateSignupForm" ->
              RequirementsAfterSignup(formData, isEmailMode, passwordRequirements)
         [] OTHER -> passwordRequirements
  /\ UNCHANGED << email, phone, password, entropy, pc, fn, formData, isEmailMode, arg,
                  result, ok >>
  /\ UNCHANGED flowVars
  /\ UNCHANGED pageVars

\* The statuses the server answers with.
Statuses == {200, 201, 204, 400, 403, 429, 500}

\* The request a flow's click sends.
FlowUrl(f) ==
  CASE f = "signup" -> SignupUrl
    [] f = "signin" -> TokenUrl
    [] f = "logout" -> RevokeUrl

\* A click that submits: the page sends the flow's request, and the click
\* returns without waiting for the response.
Submit(f, name) ==
  /\ pc = "test" /\ NoFixture
  /\ flow' = f
  /\ inflight' = {FlowUrl(f)}
  /\ fn' = name
  /\ pc' = "submitted"
  /\ UNCHANGED << waiter, resolved, expecting, result >>
  /\ UNCHANGED formVars
  /\ UNCHANGED pageVars

SubmitSignupForm == Submit("signup", "submitSignupForm")

SubmitSigninForm == Submit("signin", "submitSigninForm")

ClickLogout == Submit("logout", "clickLogout")

\* await page.waitForResponse(url): the wait is registered now and sees the
\* responses that arrive from now on.
WaitForResponse(url, name) ==
  /\ waiter' = url
  /\ fn' = name
  /\ pc' = "awaiting"
  /\ UNCHANGED << flow, inflight, resolved, expecting, result >>
  /\ UNCHANGED formVars
  /\ UNCHANGED pageVars

SetupSignupInterceptors ==
  /\ pc = "submitted" /\ flow = "signup"
  /\ WaitForResponse(SignupUrl, "setupSignupInterceptors")

WaitForSigninToken ==
  /\ pc = "submitted" /\ flow = "signin"
  /\ WaitForResponse(TokenUrl, "waitForSigninToken")

SetupLogoutInterceptors ==
  /\ pc = "submitted" /\ flow = "logout"
  /\ WaitForResponse(RevokeUrl, "setupLogoutInterceptors")

\* const apiResponses = await helper(page) as the first statement of a test:
\* the wait is registered, and the test goes on when it resolves.
AwaitFirst(url, name) ==
  /\ pc = "test" /\ NoFixture
  /\ flow' = "first"
  /\ waiter' = url
  /\ fn' = name
  /\ pc' = "awaiting"
  /\ UNCHANGED << inflight, resolved, expecting, result >>
  /\ UNCHANGED formVars
  /\ UNCHANGED pageVars

SetupLogoutInterceptorsFirst == AwaitFirst(RevokeUrl, "setupLogoutInterceptors")

\* export const setupSigninInterceptors = ApiHelpers.waitForSigninToken
SetupSigninInterceptorsFirst == AwaitFirst(TokenUrl, "setupSigninInterceptors")

\* The second await of a sign-up or sign-in flow.
WaitForUserProfile ==
  /\ pc = "resolved" /\ flow \in {"signup", "signin"} /\ Len(resolved) = 1
  /\ WaitForResponse(MeUrl, "waitForUserProfile")

\* A response arrives at the page. A wait registered for its URL resolves
\* with its status; with no such wait the response passes unseen. After a
\* successful sign-up or sign-in the page requests the user profile.
Respond ==
  /\ \E url \in inflight, status \in Statuses :
       /\ inflight' = (inflight \ {url})
                        \cup (IF url \in {SignupUrl, TokenUrl} /\ status \in {200, 201}
                              THEN {MeUrl} ELSE {})
       /\ IF pc = "awaiting" /\ waiter = url
          THEN /\ resolved' = Append(resolved, [url |-> url, status |-> status])
               /\ waiter' = "none"
               /\ pc' = "resolved"
          ELSE UNCHANGED << resolved, waiter, pc >>
  /\ UNCHANGED << flow, expecting, fn, result >>
  /\ UNCHANGED formVars
  /\ UNCHANGED pageVars

\* page.waitForResponse rejects with a TimeoutError. Responses are taken to
\* arrive within the timeout, so the step is taken only when no response for
\* the URL is outstanding.
Timeout ==
  /\ pc = "awaiting" /\ waiter \notin inflight
  /\ waiter' = "none"
  /\ pc' = "timedOut"
  /\ UNCHANGED << flow, inflight, resolved, expecting, fn, result >>
  /\ UNCHANGED formVars
  /\ UNCHANGED pageVars

\* A call of a response validator on the first response of the flow returns r.
ValidateResponse(name, b, r) ==
  /\ fn' = name
  /\ expecting' = b
  /\ result' = r
  /\ pc' = "returned"
  /\ UNCHANGED << flow, inflight, waiter, resolved >>
  /\ UNCHANGED formVars
  /\ UNCHANGED pageVars

ValidateSignupResponse ==
  /\ pc = "resolved" /\ flow = "signup"
  /\ \E b \in BOOLEAN :
       ValidateResponse("validateSignupResponse", b, validateSignupResponse(resolved[1], b))

ValidateSigninResponse ==
  /\ pc = "resolved" /\ flow = "signin"
  /\ \E b \in BOOLEAN :
       ValidateResponse("validateSigninResponse", b, validateSigninResponse(resolved[1], b))

ValidateLogoutResponse ==
  /\ pc = "resolved" /\ flow = "logout"
  /\ ValidateResponse("validateLogoutResponse", expecting,
                      validateLogoutResponse(resolved[1]))

\* The logout button is on the profile page, which the page shows until the
\* logout has completed and the page has gone to the sign-in page.
LogoutButtonVisible == session # "signedOut"

\* The test has signed in and the profile page has loaded.
ProfileLoaded ==
  /\ pc = "test" /\ NoFixture
  /\ session' = "signedIn"
  /\ clicks' = 0
  /\ fn' = "waitForLoad"
  /\ pc' = "profile"
  /\ UNCHANGED result
  /\ UNCHANGED besidesProfile

\* clickLogout up to its wait: if (await button.isVisible()) the call waits
\* two seconds, else it returns.
ClickLogoutIsVisible ==
  /\ pc = "profile" /\ clicks < MaxClicks
  /\ clicks' = clicks + 1
  /\ fn' = "clickLogout"
  /\ pc' = IF LogoutButtonVisible THEN "waitForTimeout" ELSE "profile"
  /\ UNCHANGED << session, result >>
  /\ UNCHANGED besidesProfile

\* clickLogout after its wait: await button.click(). The click of a visible
\* button starts the logout; the click of a button that is gone waits for the
\* button and fails when the wait runs out.
ClickLogoutClick ==
  /\ pc = "waitForTimeout"
  /\ IF LogoutButtonVisible
     THEN /\ session' = "loggingOut"
          /\ pc' = "profile"
     ELSE /\ pc' = "clickTimedOut"
          /\ UNCHANGED session
  /\ UNCHANGED << clicks, fn, result >>
  /\ UNCHANGED besidesProfile

\* The logout completes: the page goes to the sign-in page.
LogoutCompletes ==
  /\ session = "loggingOut"
  /\ session' = "signedOut"
  /\ UNCHANGED << clicks, pc, fn, result >>
  /\ UNCHANGED besidesProfile

\* The URLs a test may be at when it validates the sign-in: the profile
\* page, the account page, the sign-in page.
AuthUrls ==
  { <<"/", "e", "n", "/", "m", "y", "a", "c", "c", "o", "u", "n", "t", "/", "p", "r", "o", "f", "i", "l", "e", "?", "t", "a", "b", "=", "1">>,
    <<"/", "e", "n", "/", "m", "y", "a", "c", "c", "o", "u", "n", "t">>,
    <<"/", "e", "n", "/", "s", "i", "g", "n", "i", "n">> }

\* The emails a test expects, as given and with a space before.
ExpectedEmails ==
  { <<"a", "@", "b", ".", "c", "o">>,
    <<" ", "a", "@", "b", ".", "c", "o">> }

\* What the page may show as the email: nothing, the two expected forms, the
\* address with a space after, another address, a lone space.
ShownEmails ==
  ExpectedEmails \cup
    { <<>>,
      <<"a", "@", "b", ".", "c", "o", " ">>,
      <<"x", "@", "b", ".", "c", "o">>,
      <<" ">> }

\* const authValidation = await profilePage.validateSuccessfulAuth(email), on
\* any page: the profile button there in time or not and then still visible or
\* not, at any URL, showing any email.
ValidateSuccessfulAuth ==
  /\ pc = "test" /\ NoFixture
  /\ \E appeared, profileButton, logoutButton \in BOOLEAN :
     \E url \in AuthUrls, displayedEmail, inputEmail \in ShownEmails,
        expectedEmail \in ExpectedEmails :
       LET page == [appeared |-> appeared, url |-> url,
                    displayedEmail |-> displayedEmail, inputEmail |-> inputEmail,
                    profileButton |-> appeared /\ profileButton,
                    logoutButton |-> logoutButton,
                    expectedEmail |-> expectedEmail]
       IN /\ authPage' = page
          /\ result' = validateSuccessfulAuth(page, expectedEmail)
  /\ fn' = "validateSuccessfulAuth"
  /\ pc' = "returned"
  /\ UNCHANGED besidesAuth

\* The bodies a request may carry: sign-in forms with encoded characters,
\* with a captcha token already there, once or twice, forms with empty pieces
\* and bare names, a body that is no form, an empty body, no body.
PostDataSamples ==
  { Null,
    Str(<<"g", "r", "a", "n", "t", "_", "t", "y", "p", "e", "=", "p", "a", "s", "s", "w", "o", "r", "d", "&", "u", "s", "e", "r", "n", "a", "m", "e", "=", "a", "%", "4", "0", "b", ".", "c", "o", "&", "p", "a", "s", "s", "w", "o", "r", "d", "=", "P", "+", "w", "%", "2", "6", "d", "%", "3", "D", "1">>),
    Str(<<"c", "a", "p", "t", "c", "h", "a", "T", "o", "k", "e", "n", "=", "o", "l", "d", "&", "u", "s", "e", "r", "n", "a", "m", "e", "=", "a", "%", "4", "0", "b", ".", "c", "o">>),
    Str(<<"c", "a", "p", "t", "c", "h", "a", "T", "o", "k", "e", "n", "=", "a", "&", "x", "=", "1", "&", "c", "a", "p", "t", "c", "h", "a", "T", "o", "k", "e", "n", "=", "b">>),
    Str(<<"x", "=", "1", "&", "&", "y", "&", "=", "v", "&", "z", "=", "1", "=", "2">>),
    Str(<<"x", "=", "%", "7", "e", "%", "z", "z">>),
    Str(<<"{", "\"", "e", "m", "a", "i", "l", "\"", ":", "\"", "a", "@", "b", ".", "c", "o", "\"", "}">>),
    Str(<<>>) }

\* The headers a request may carry.
HeaderSamples ==
  { << <<"content-type", "application/x-www-form-urlencoded">> >>,
    << <<"content-type", "application/json">>, <<"x-requested-with", "XMLHttpRequest">> >> }

\* beforeEach has called interceptAuthWithTestCaptcha(page), and the page
\* sends a request, which the route's handler continues when the URL matches.
RequestWithCaptchaRoute ==
  /\ \/ pc = "test" /\ NoFixture
     \/ pc = "captchaRoute"
  /\ \E url \in {SignupUrl, TokenUrl, MeUrl, RevokeUrl}, method \in {"POST", "GET"},
        headers \in HeaderSamples, postData \in PostDataSamples :
       LET req == [url |-> url, method |-> method, headers |-> headers,
                   postData |-> IF method = "GET" THEN Null ELSE postData]
       IN tokenRoute' = [installed |-> TRUE, request |-> req, sent |-> CaptchaRoute(req)]
  /\ fn' = "interceptAuthWithTestCaptcha"
  /\ pc' = "captchaRoute"
  /\ UNCHANGED result
  /\ UNCHANGED besidesCaptcha

\* The sign-up page has loaded, its checkbox checked or not.
SignupFormLoaded ==
  /\ pc = "test" /\ NoFixture
  /\ subscribed' \in BOOLEAN
  /\ setCall' = NoSetCall
  /\ fn' = "navigate"
  /\ pc' = "signupForm"
  /\ UNCHANGED result
  /\ UNCHANGED besidesSignup

\* await signUpPage.setSubscribeCheckbox(checked), the argument left out
\* (checked = true by default) or given.
SetSubscribeCheckbox ==
  /\ pc = "signupForm"
  /\ \E given \in {"undefined", "true", "false"} :
       LET checked == given # "false"
           after == setSubscribeCheckbox(subscribed, checked)
       IN /\ subscribed' = after.isChecked
          /\ setCall' = [made |-> TRUE, checked |-> checked, before |-> subscribed,
                         clicks |-> after.clicks,
                         repeated |-> setCall.made /\ setCall.checked = checked]
  /\ fn' = "setSubscribeCheckbox"
  /\ UNCHANGED << pc, result >>
  /\ UNCHANGED besidesSignup

\* The test ends; the next one starts with no fixture and no call made.
NextTest ==
  /\ pc \in {"returned", "resolved", "timedOut", "requested", "profile", "clickTimedOut",
             "generated", "signupForm", "captchaRoute"}
  /\ email' = Undefined
  /\ phone' = Undefined
  /\ password' = Undefined
  /\ entropy' = <<>>
  /\ pc' = "test"
  /\ fn' = "none"
  /\ formData' = NoForm
  /\ isEmailMode' = TRUE
  /\ arg' = Undefined
  /\ result' = NewResult
  /\ ok' = FALSE
  /\ again' = NotAgain
  /\ flow' = "none"
  /\ inflight' = {}
  /\ waiter' = "none"
  /\ resolved' = <<>>
  /\ expecting' = TRUE
  /\ request' = NoRequest
  /\ session' = "signedOut"
  /\ clicks' = 0
  /\ emails' = <<>>
  /\ subscribed' = FALSE
  /\ setCall' = NoSetCall
  /\ authPage' = NoAuthPage
  /\ tokenRoute' = NoTokenRoute
  /\ UNCHANGED << passwordRequirements, contexts >>

Next ==
  \/ GlobalSetup
  \/ PageRequest
  \/ ProfileLoaded
  \/ ClickLogoutIsVisible
  \/ ClickLogoutClick
  \/ LogoutCompletes
  \/ GenerateTwoEmails
  \/ SignupFormLoaded
  \/ ValidateSuccessfulAuth
  \/ RequestWithCaptchaRoute
  \/ SetSubscribeCheckbox
  \/ GenerateRandomEmail
  \/ GenerateRandomPhone
  \/ GenerateValidPassword
  \/ IsValidEmail
  \/ IsValidPhone
  \/ ValidatePassword
  \/ ValidateSignupForm
  \/ ValidateSigninForm
  \/ CallBetween
  \/ CallAgain
  \/ SubmitSignupForm
  \/ SubmitSigninForm
  \/ ClickLogout
  \/ SetupSignupInterceptors
  \/ WaitForSigninToken
  \/ SetupLogoutInterceptors
  \/ SetupLogoutInterceptorsFirst
  \/ SetupSigninInterceptorsFirst
  \/ WaitForUserProfile
  \/ Respond
  \/ Timeout
  \/ ValidateSignupResponse
  \/ ValidateSigninResponse
  \/ ValidateLogoutResponse
  \/ NextTest

Spec == Init /\ [][Next]_vars

(***************************************************************************)
(* Properties                                                              *)
(***************************************************************************)

\* The call named name has returned a ValidationResult.
Returned(name) == pc = "returned" /\ fn = name /\ ~result.threw

\* A field value the validators treat as absent: missing, null, 0, the empty
\* string or a string of white space only.
IsBlankValue(v) ==
  \/ v \in {Undefined, Null, Num(0)}
  \/ v.t = "string" /\ \A i \in DOMAIN v.s : v.s[i] \in {" ", "\t", "\n"}

\* The four password-policy messages, in the order of the rules.
PolicyMessages == <<MsgTooShort(9), MsgLetters, MsgNumbers, MsgSpecial>>

\* The elements of a sequence.
Range(seq) == {seq[i] : i \in DOMAIN seq}

\* C1: every result of validatePassword, validateSignupForm and
\* validateSigninForm has isValid true exactly when its errors list is empty.
C1_IsValidIffNoErrors ==
  (pc = "returned"
     /\ fn \in {"validatePassword", "validateSignupForm", "validateSigninForm"}
     /\ ~result.threw)
  => (result.isValid <=> result.errors = <<>>)

\* A sign-up validation returned invalid with an identity error and several
\* policy errors.
C1_Witness ==
  /\ Returned("validateSignupForm")
  /\ ~result.isValid
  /\ Len(result.errors) >= 4

\* C2: a password returned by generateValidPassword, whatever was drawn and
\* however the shuffle ordered it, passes validatePassword with no error.
C2_GeneratedPasswordIsValid ==
  (pc = "returned" /\ fn = "validatePassword" /\ password # Undefined)
  => (arg = password /\ ~result.threw /\ result.isValid /\ result.errors = <<>>)

\* validatePassword accepted a generated password whose first character is the
\* drawn special character, moved there by the shuffle.
C2_Witness ==
  /\ Returned("validatePassword")
  /\ password # Undefined
  /\ arg = password
  /\ result.isValid
  /\ password.s[1] \in Range(GenSpecialChars)
  /\ password.s[3] \notin Range(GenSpecialChars)

\* C3: an address returned by generateRandomEmail, for every clock value and
\* every random suffix, satisfies isValidEmail.
C3_GeneratedEmailIsValid ==
  (pc = "returned" /\ fn = "isValidEmail" /\ email # Undefined)
  => (arg = email /\ ok)

\* isValidEmail accepted a generated address made from a thirteen-digit clock
\* value and the suffix 999.
C3_Witness ==
  /\ pc = "returned" /\ fn = "isValidEmail"
  /\ email # Undefined
  /\ arg = email
  /\ ok
  /\ Len(email.s) = Len(<<"t", "e", "s", "t", "u", "s", "e", "r">>) + 13 + 3 + Len(<<"@", "e", "x", "a", "m", "p", "l", "e", ".", "c", "o", "m">>)

\* C4: with a generated phone and a generated password, phone-mode sign-up and
\* sign-in validation both return isValid true.
C4_GeneratedPhonePassesForms ==
  (pc = "returned" /\ fn \in {"validateSignupForm", "validateSigninForm"}
     /\ ~isEmailMode /\ phone # Undefined /\ password # Undefined)
  => (formData.phone = phone /\ formData.password = password
        /\ ~result.threw /\ result.isValid)

C6_SignupFormValidIff ==
  Returned("validateSignupForm")
  => LET id == IF isEmailMode THEN formData.email ELSE formData.phone
         wellFormed == IF isEmailMode THEN isValidEmail(id) ELSE isValidPhone(id)
         pw == formData.password
         idErrors ==
           IF IsBlankValue(id)
           THEN <<IF isEmailMode THEN MsgEmailRequired ELSE MsgPhoneRequired>>
           ELSE IF ~wellFormed
                THEN <<IF isEmailMode THEN MsgEmailInvalid ELSE MsgPhoneInvalid>>
                ELSE <<>>
         pwErrors ==
           IF IsBlankValue(pw) THEN <<MsgPasswordRequired>>
           ELSE validatePassword(pw).errors
     IN /\ result.isValid <=>
             /\ ~IsBlankValue(id) /\ wellFormed
             /\ ~IsBlankValue(pw) /\ validatePassword(pw).isValid
        /\ result.errors = idErrors \o pwErrors

\* Phone-mode sign-up validation accepted a nine-digit phone with a valid
\* password.
C6_Witness ==
  /\ Returned("validateSignupForm")
  /\ ~isEmailMode
  /\ formData.phone = Str(<<"5", "0", "1", "2", "3", "4", "5", "6", "7">>)
  /\ formData.password = Str(<<"T", "e", "s", "t", "1", "2", "3", "4", "!">>)
  /\ result.isValid

\* The identity-field messages of validateSignupForm.
SignupIdentityMessages ==
  {MsgEmailRequired, MsgEmailInvalid, MsgPhoneRequired, MsgPhoneInvalid}

\* C7: in validateSignupForm a blank email (email mode) yields 'Email is
\* required' and never the invalid-email message, a blank phone (phone mode)
\* yields 'Phone number is required' and never the invalid-phone message, and
\* a result never holds more than one identity-field error.
C7_PresenceExcludesFormat ==
  Returned("validateSignupForm")
  => LET errs == Range(result.errors)
     IN /\ (isEmailMode /\ IsBlankValue(formData.email))
             => (MsgEmailRequired \in errs /\ MsgEmailInvalid \notin errs)
        /\ (~isEmailMode /\ IsBlankValue(formData.phone))
             => (MsgPhoneRequired \in errs /\ MsgPhoneInvalid \notin errs)
        /\ Len(SelectSeq(result.errors, LAMBDA m : m \in SignupIdentityMessages)) <= 1

\* Email-mode sign-up validation of a white-space-only email reported 'Email
\* is required'.
C7_Witness ==
  /\ Returned("validateSignupForm")
  /\ isEmailMode
  /\ formData.email = Str(<<"\t", " ">>)
  /\ result.errors[1] = MsgEmailRequired

\* C8: in validateSignupForm a blank password gives exactly one password
\* error, 'Password is required', and no policy message; a policy message
\* appears only for a non-blank password.
C8_BlankPasswordSkipsPolicy ==
  Returned("validateSignupForm")
  => LET pwErrors ==
           SelectSeq(result.errors,
                     LAMBDA m : m = MsgPasswordRequired \/ m \in Range(PolicyMessages))
     IN /\ IsBlankValue(formData.password) => pwErrors = <<MsgPasswordRequired>>
        /\ (\E m \in Range(PolicyMessages) : m \in Range(result.errors))
             => ~IsBlankValue(formData.password)

\* Sign-up validation of a password of nine spaces reported 'Password is
\* required' as its last error.
C8_Witness ==
  /\ Returned("validateSignupForm")
  /\ formData.password = Str(Repeat(" ", 9))
  /\ result.errors # <<>>
  /\ result.errors[Len(result.errors)] = MsgPasswordRequired

\* The messages of the presence checks and of the format checks of the two
\* form validators.
PresenceMessages ==
  {MsgEmailRequired, MsgPhoneRequired, MsgPasswordRequired, MsgSigninEmailRequired,
   MsgSigninPasswordRequired}
FormatMessages == {MsgEmailInvalid, MsgPhoneInvalid, MsgSigninPhoneInvalid}

\* The kind of check a message comes from: presence, format, policy.
KindRank(m) == IF m \in PresenceMessages THEN 1 ELSE IF m \in FormatMessages THEN 2 ELSE 3

\* The field a message is about: the identity field, the password.
FieldRank(m) ==
  IF m \in {MsgPasswordRequired, MsgSigninPasswordRequired} \cup Range(PolicyMessages)
  THEN 2 ELSE 1

\* The place of a policy message in the order of the rules (0: not one).
PolicyRank(m) ==
  IF m \in Range(PolicyMessages)
  THEN CHOOSE k \in DOMAIN PolicyMessages : PolicyMessages[k] = m
  ELSE 0

\* The call of a form validator has returned a ValidationResult.
FormReturned == Returned("validateSignupForm") \/ Returned("validateSigninForm")

\* C9 as stated: in every result of the form validators all presence errors
\* come before all format errors, which come before all policy errors.
C9_PresenceFormatPolicyOrder ==
  FormReturned
  => \A i, j \in DOMAIN result.errors :
       i < j => KindRank(result.errors[i]) <= KindRank(result.errors[j])

\* C9 amended: in every result of the form validators the errors are ordered
\* field by field: the identity field's error (its presence error, or else
\* its format error) comes before every password error (the password's
\* presence error, or else the policy errors in the order of the rules).
C9_ErrorsOrderedByField ==
  FormReturned
  => \A i, j \in DOMAIN result.errors :
       i < j => /\ FieldRank(result.errors[i]) < FieldRank(result.errors[j])
                   \/ /\ FieldRank(result.errors[i]) = 2
                      /\ FieldRank(result.errors[j]) = 2
                      /\ 0 < PolicyRank(result.errors[i])
                      /\ PolicyRank(result.errors[i]) < PolicyRank(result.errors[j])

\* A form validator reported the identity field's format error followed by the
\* password's presence error.
C9_Witness ==
  /\ FormReturned
  /\ Len(result.errors) = 2
  /\ result.errors[1] \in FormatMessages
  /\ result.errors[2] \in PresenceMessages

C12_SaudiFormatAccepted ==
  (FormReturned /\ ~isEmailMode /\ formData.phone.t = "string") =>
    /\ (/\ formData.phone.s \in ValidPhones
        /\ formData.password = Str(<<"T", "e", "s", "t", "P", "a", "s", "s", "1", "2", "3", "!">>))
       => result.isValid
    /\ formData.phone.s = <<"1", "2", "3", "4", "5", "6", "7", "8", "9">>
       => /\ ~result.isValid
          /\ Range(result.errors) \cap {MsgPhoneInvalid, MsgSigninPhoneInvalid} # {}

\* C13: no validator call ends in a throw, whatever its input: a missing,
\* undefined or null value and a value that is not a string included.
C13_ValidatorsNeverThrow ==
  (pc = "returned"
     /\ fn \in {"isValidEmail", "isValidPhone", "validatePassword",
                "validateSignupForm", "validateSigninForm"})
  => ~result.threw

C15_SigninBlankEmailMessage ==
  (Returned("validateSigninForm") /\ isEmailMode /\ IsBlankValue(formData.email))
  => ~result.isValid /\ MsgEmailRequired \in Range(result.errors)

\* C16: email-mode sign-up validation with the password 'Test1234!' rejects
\* every entry of invalid.emails: with 'Email is required' when the entry is
\* blank and 'Please enter a valid email address' otherwise.
C16_InvalidEmailsRejected ==
  (/\ Returned("validateSignupForm") /\ isEmailMode
   /\ formData.email.t = "string" /\ formData.email.s \in InvalidEmails
   /\ formData.password = Str(<<"T", "e", "s", "t", "1", "2", "3", "4", "!">>))
  => /\ ~result.isValid
     /\ IF Trim(formData.email.s) = <<>>
        THEN MsgEmailRequired \in Range(result.errors)
        ELSE MsgEmailInvalid \in Range(result.errors)

\* C17: email-mode sign-up validation with a valid email rejects every entry
\* of invalid.passwords: with 'Password is required' when the entry is blank
\* and at least one policy error otherwise.
C17_InvalidPasswordsRejected ==
  (/\ Returned("validateSignupForm") /\ isEmailMode
   /\ isValidEmail(formData.email)
   /\ formData.password.t = "string" /\ formData.password.s \in InvalidPasswords)
  => /\ ~result.isValid
     /\ IF Trim(formData.password.s) = <<>>
        THEN MsgPasswordRequired \in Range(result.errors)
        ELSE Range(result.errors) \cap Range(PolicyMessages) # {}

\* The call named name of a response validator has returned.
ResponseValidated(name) == pc = "returned" /\ fn = name

\* C18: the response validators compare the status with literals: sign-up
\* is valid for 200 or 201 when success is expected and for 400 when it is
\* not, sign-in for 200 and for 400, logout for 204; every result holds at
\* most one error and is valid exactly when it holds none.
C18_StatusEqualityChecks ==
  LET status == resolved[1].status
  IN /\ ResponseValidated("validateSignupResponse")
        => (result.isValid <=> IF expecting THEN status \in {200, 201} ELSE status = 400)
     /\ ResponseValidated("validateSigninResponse")
        => (result.isValid <=> IF expecting THEN status = 200 ELSE status = 400)
     /\ ResponseValidated("validateLogoutResponse") => (result.isValid <=> status = 204)
     /\ (pc = "returned"
          /\ fn \in {"validateSignupResponse", "validateSigninResponse",
                     "validateLogoutResponse"})
        => /\ Len(result.errors) <= 1
           /\ result.isValid <=> result.errors = <<>>

\* A sign-up answered with 201 passed validateSignupResponse(r, true).
C18_Witness ==
  /\ ResponseValidated("validateSignupResponse") /\ expecting
  /\ resolved[1].status = 201
  /\ result.isValid

\* A call of validateSignupResponse or validateSigninResponse that expected a
\* failure has returned.
FailureExpected ==
  /\ pc = "returned" /\ ~expecting
  /\ fn \in {"validateSignupResponse", "validateSigninResponse"}

C20_NoResponseMissed ==
  flow \in {"signup", "signin", "logout"}
  => /\ pc = "awaiting" => waiter \in inflight
     /\ pc # "timedOut"

\* C21: a helper awaited as the first statement of a test completes without
\* its request having been sent: the test is never left waiting for a
\* response that nothing has requested, and the wait does not time out.
C21_AwaitBeforeRequestCompletes ==
  flow = "first" => /\ pc = "awaiting" => waiter \in inflight
                    /\ pc # "timedOut"

\* C22: once globalSetup has completed, a request of a test's page for a URL
\* that contains a blocked domain or path is aborted, and a request for any
\* other URL is not.
C22_TrackersBlocked ==
  pc = "requested"
  => (request.outcome = "aborted"
        <=> \E domain \in BlockedDomains : Includes(request.url, domain))

\* C23: consecutive clickLogout calls all return without error: no call
\* clicks the logout button after the button has ceased to be visible.
C23_LogoutClicksGraceful == pc # "clickTimedOut"

\* C24: validateSigninForm is valid exactly when the identity field of the
\* mode is not blank and passes its format check and the password is not
\* blank; its errors are the identity field's error, if any, followed by the
\* password's presence error, if any, so the password counts only through
\* being blank or not and the password policy is not applied.
C24_SigninIgnoresPolicy ==
  Returned("validateSigninForm")
  => LET field == IF isEmailMode THEN formData.email ELSE formData.phone
         format == IF isEmailMode THEN isValidEmail(field) ELSE isValidPhone(field)
         identity == IF IsBlankValue(field)
                     THEN <<IF isEmailMode THEN MsgSigninEmailRequired
                            ELSE MsgPhoneRequired>>
                     ELSE IF ~format
                     THEN <<IF isEmailMode THEN MsgEmailInvalid
                            ELSE MsgSigninPhoneInvalid>>
                     ELSE <<>>
         presence == IF IsBlankValue(formData.password)
                     THEN <<MsgSigninPasswordRequired>> ELSE <<>>
     IN /\ result.errors = identity \o presence
        /\ result.isValid <=> (/\ ~IsBlankValue(field) /\ format
                               /\ ~IsBlankValue(formData.password))

\* Sign-in accepted the 8-character password 'Test123!', which validatePassword
\* rejects.
C24_Witness ==
  /\ Returned("validateSigninForm") /\ isEmailMode
  /\ formData.password = Str(<<"T", "e", "s", "t", "1", "2", "3", "!">>)
  /\ ~validatePassword(formData.password).isValid
  /\ result.isValid

\* How many places of seq hold c.
Count(seq, c) == Cardinality({i \in DOMAIN seq : seq[i] = c})

\* C25: a password returned by generateValidPassword is as long as the policy
\* minimum, holds exactly one character of the special set, at least one
\* letter, at least one digit and otherwise letters and digits only, and holds
\* every character as often as the characters drawn before the shuffle do.
C25_GeneratedPasswordShape ==
  password # Undefined
  => LET draws == entropy[1]
         alnum == GenLetters \o GenNumbers
         drawn == <<GenLetters[draws.letter + 1], GenNumbers[draws.number + 1],
                    GenSpecialChars[draws.special + 1]>>
                  \o [i \in DOMAIN draws.fill |-> alnum[draws.fill[i] + 1]]
         pw == password.s
     IN /\ password.t = "string"
        /\ Len(pw) = passwordRequirements.minLength
        /\ Cardinality({i \in DOMAIN pw : <<pw[i]>> \in Range(passwordRequirements.mustContain.specialChars)}) = 1
        /\ \E i \in DOMAIN pw : pw[i] \in Range(GenLetters)
        /\ \E i \in DOMAIN pw : pw[i] \in Range(GenNumbers)
        /\ \A i \in DOMAIN pw :
             pw[i] \in Range(GenLetters) \cup Range(GenNumbers) \cup Range(GenSpecialChars)
        /\ \A c \in Range(pw) \cup Range(drawn) : Count(pw, c) = Count(drawn, c)

\* A generated password that the shuffle reversed: the special character drawn
\* third stands seventh, and a fill character drawn twice is in it twice.
C25_Witness ==
  /\ password # Undefined
  /\ fn = "generateValidPassword"
  /\ password.s[7] \in Range(GenSpecialChars)
  /\ \E c \in Range(password.s) : Count(password.s, c) >= 2

\* The two calls drew the same time value and the same random suffix.
SameDraws == emails[1].timestamp = emails[2].timestamp /\ emails[1].random = emails[2].random

\* C26 as stated: two calls of generateRandomEmail return the same address
\* only when both the time value and the random suffix are equal.
C26_DistinctDrawsDistinctEmails ==
  pc = "generated" => (emails[1].email = emails[2].email <=> SameDraws)

\* C26: two calls of generateRandomEmail whose time values have the same
\* number of digits return the same address only when both the time value and
\* the random suffix are equal.
C26_DistinctEmailsAtEqualLength ==
  (/\ pc = "generated"
   /\ Len(emails[1].timestamp.digits) = Len(emails[2].timestamp.digits)
   /\ emails[1].timestamp.negative = emails[2].timestamp.negative)
  => (emails[1].email = emails[2].email <=> SameDraws)

\* Two calls one millisecond apart that drew the same suffix returned
\* different addresses.
C26_Witness ==
  /\ pc = "generated"
  /\ Len(emails[1].timestamp.digits) = 13 /\ Len(emails[2].timestamp.digits) = 13
  /\ emails[1].timestamp # emails[2].timestamp
  /\ emails[1].random = emails[2].random
  /\ emails[1].email # emails[2].email

\* C27: after setSubscribeCheckbox(checked) the checkbox is as checked says,
\* whatever it was before; the call clicks at most once, and not at all when
\* the checkbox already was as asked, so a call that repeats the argument of
\* the call before it leaves the checkbox as it was.
C27_CheckboxAsAsked ==
  (pc = "signupForm" /\ setCall.made)
  => /\ subscribed = setCall.checked
     /\ setCall.clicks \in {0, 1}
     /\ setCall.before = setCall.checked => setCall.clicks = 0
     /\ setCall.repeated => (setCall.clicks = 0 /\ subscribed = setCall.before)

\* A call that repeated the argument false on a checkbox the call before it
\* had unchecked made no click.
C27_Witness ==
  /\ pc = "signupForm" /\ setCall.made /\ setCall.repeated
  /\ ~setCall.checked /\ ~subscribed
  /\ setCall.clicks = 0

\* The five conditions of a successful sign-in, in the order of the checks,
\* on the page validateSuccessfulAuth looked at.
AuthConditions ==
  << Includes(authPage.url, ProfilePath),
     authPage.displayedEmail = <<>>
       \/ Trim(authPage.displayedEmail) = Trim(authPage.expectedEmail),
     authPage.inputEmail = <<>>
       \/ Trim(authPage.inputEmail) = Trim(authPage.expectedEmail),
     authPage.profileButton,
     authPage.logoutButton >>

\* C28: validateSuccessfulAuth returns isValid true exactly when the URL
\* contains '/myaccount/profile', the displayed email and the input's email are
\* each empty or equal to the expected one after trimming, and the profile
\* and logout buttons are visible; the result has one error for each
\* condition that fails, and isValid says that there is none.
C28_AuthValidation ==
  Returned("validateSuccessfulAuth")
  => /\ result.isValid = (\A i \in 1 .. 5 : AuthConditions[i])
     /\ Len(result.errors) = Cardinality({i \in 1 .. 5 : ~AuthConditions[i]})
     /\ result.isValid = (result.errors = <<>>)

\* Off the profile page, with another address in the input and no logout
\* button, the result has three errors; the displayed email differs from the
\* expected one by a space only.
C28_Witness ==
  /\ Returned("validateSuccessfulAuth")
  /\ ~AuthConditions[1] /\ ~AuthConditions[3] /\ ~AuthConditions[5]
  /\ authPage.displayedEmail # <<>>
  /\ authPage.displayedEmail # authPage.expectedEmail
  /\ Len(result.errors) = 3 /\ ~result.isValid

\* The pairs of a parameter list whose name is not name, in their order.
Others(params, name) ==
  LET F[i \in 0 .. Len(params)] ==
        IF i = 0 THEN <<>>
        ELSE IF params[i][1] = name THEN F[i - 1]
        ELSE Append(F[i - 1], params[i])
  IN F[Len(params)]

\* The form parameters of a request's body.
FormOf(req) == URLSearchParams(IF req.postData.t = "string" THEN req.postData.s ELSE <<>>)

\* C29: with the captcha route installed, a request to the token endpoint
\* goes on once, its body a form with one captchaToken parameter, of the test
\* value, and every other parameter as the page sent it, its headers the
\* page's; a request to any other URL goes on as the page sent it.
C29_CaptchaTokenInjected ==
  (pc = "captchaRoute" /\ tokenRoute.installed)
  => /\ Len(tokenRoute.sent) = 1
     /\ IF tokenRoute.request.url = TokenUrl
        THEN LET sent == tokenRoute.sent[1]
             IN /\ sent.url = TokenUrl
                /\ {i \in DOMAIN FormOf(sent) : FormOf(sent)[i][1] = CaptchaParam} # {}
                /\ \A i \in DOMAIN FormOf(sent) :
                      FormOf(sent)[i][1] = CaptchaParam
                      => /\ FormOf(sent)[i][2] = TestCaptchaToken
                         /\ \A j \in DOMAIN FormOf(sent) :
                              FormOf(sent)[j][1] = CaptchaParam => j = i
                /\ Others(FormOf(sent), CaptchaParam)
                     = Others(FormOf(tokenRoute.request), CaptchaParam)
                /\ sent.headers = tokenRoute.request.headers
        ELSE tokenRoute.sent[1] = tokenRoute.request

\* A sign-in form that came with two captcha tokens and a parameter between
\* them went on with one token and that parameter.
C29_Witness ==
  /\ pc = "captchaRoute" /\ tokenRoute.installed
  /\ tokenRoute.request.url = TokenUrl
  /\ Len(FormOf(tokenRoute.request)) = 3
  /\ Len(Others(FormOf(tokenRoute.request), CaptchaParam)) = 1
  /\ Len(FormOf(tokenRoute.sent[1])) = 2

\* What the field the mode does not select may hold in a form that is
\* otherwise the one validated: nothing, a number, a well-formed email or
\* phone number (the one the mode does not ask for), a string that is neither.
OtherFieldValues ==
  { Undefined, Num(5),
    Str(IF isEmailMode THEN <<"5", "0", "1", "2", "3", "4", "5", "6", "7">>
        ELSE <<"a", "@", "b", ".", "c", "o">>),
    Str(<<"x">>) }

\* The forms that differ from the one validated in the field the mode does
\* not select, and those that differ from it in subscribe.
FormVariants ==
  { [email |-> IF isEmailMode THEN formData.email ELSE other,
     phone |-> IF isEmailMode THEN other ELSE formData.phone,
     password |-> formData.password,
     subscribe |-> Undefined] : other \in OtherFieldValues }
  \cup { [email |-> formData.email, phone |-> formData.phone,
          password |-> formData.password, subscribe |-> subscribe] :
            subscribe \in {Null, Str(<<"x">>)} }

\* C30: the result of validateSignupForm and of validateSigninForm, a throw
\* included, is the one every form gets that differs from the form validated
\* only in the field the mode does not select (the phone in email mode, the
\* email in phone mode) and in subscribe.
C30_ModeIsolatesIdentityFields ==
  /\ (pc = "returned" /\ fn = "validateSignupForm")
     => \A fd \in FormVariants : validateSignupForm(fd, isEmailMode) = result
  /\ (pc = "returned" /\ fn = "validateSigninForm")
     => \A fd \in FormVariants : validateSigninForm(fd, isEmailMode) = result

\* A phone-mode sign-up form was found valid though its email field holds a
\* string that is no email.
C30_Witness ==
  /\ Returned("validateSignupForm") /\ ~isEmailMode
  /\ result.isValid
  /\ formData.email.t = "string" /\ ~isValidEmail(formData.email)

====
